---- MODULE Spec2Model ----
(***************************************************************************)
(* A model of web-browser-storage: MemoryStorage facades sharing one table *)
(* and one external-change listener registry, and CachedStorage instances  *)
(* buffering writes on top of them.                                        *)
(*                                                                         *)
(* Every public call is one action.  A call runs to completion, together   *)
(* with every listener it invokes synchronously, so the effect of a call   *)
(* is computed by (mutually recursive) operators over a "world" record     *)
(* holding the mutable state the nested calls touch.                       *)
(***************************************************************************)
EXTENDS Integers, Sequences, FiniteSets, TLC

VARIABLES
    data,                  \* MemoryStorage: the shared table, in insertion order
    listeners,             \* MemoryStorage: the shared registry of {storageId, listener}
    stringifyStoredValues, \* MemoryStorage: the `stringifyStoredValues` option
    cache,                 \* CachedStorage: this.cache, per instance, in insertion order
    flushTimer,            \* CachedStorage: this.flushTimer, per instance
    timers,                \* Timer: number of scheduled, not yet fired or cancelled callbacks
    isStarted,             \* CachedStorage: this._isStarted, per instance
    current,               \* CachedStorage: the listener closure made by the latest start()
    active,                \* TabStatusWatcher: isActive(), per instance
    cachedKeys,            \* CachedStorage: this.options.cachedKeys, per instance
    hasMerge,              \* CachedStorage: whether the `merge` option was given
    delivered,             \* what the probe listeners received during the latest call
    last,                  \* the latest call: its name, receiver, arguments and error
    storages,              \* the MemoryStorage objects made so far: id, options, references
    dataSource,            \* MemoryStorage: this._data of each root object
    externalChangeListeners \* MemoryStorage: this.externalChangeListeners of each root object

vars == <<data, listeners, stringifyStoredValues, cache, flushTimer, timers,
          isStarted, current, active, cachedKeys, hasMerge, delivered, last,
          storages, dataSource, externalChangeListeners>>

\* The MemoryStorage objects as objects: which table and registry each one refers to.
objects == <<storages, dataSource, externalChangeListeners>>

----------------------------------------------------------------------------
(* Bounds                                                                  *)

\* Values "str"/"date" carry a number below Modulus.
Modulus == 2
\* Nested flush() calls beyond this depth exhaust the call stack.
MaxDepth == 2
\* cacheKey() calls per instance.
MaxPatterns == 1
\* Entries of the listener registry.
MaxListeners == 3

----------------------------------------------------------------------------
(* Values                                                                  *)

\* A string: it survives JSON.parse(JSON.stringify(v)).
Str(n) == <<"str", n>>
\* A Date: JSON.stringify turns it into its ISO string, and it is read back as that string.
Date(n) == <<"date", n>>
\* JS null: what get() returns for a missing key, and a delete's notified value.
Null == <<"null", 0>>
\* JS undefined: what set() takes as "delete", and what a missing property reads as.
Undefined == <<"undefined", 0>>

\* A string given by its characters.
Text(s) == <<"text", s>>

Num(v) == v[2]

\* A variant of JsonRoundTrip that differs from the code; the properties must tell it apart.
JsonRoundTripDropped(v) == v
\* JSON.parse(JSON.stringify(item))
JsonRoundTrip(v) == IF v[1] = "date" THEN Str(v[2]) ELSE v

\* A variant of Merge that differs from the code; the properties must tell it apart.
MergeSwapped(key, prevValue, value) ==
    <<value[1], (Num(value) + Num(prevValue) + 1) % Modulus>>
\* The caller's merge(key, cachedValue, newValue): a value of the cached value's kind
\* that depends on both values.
Merge(key, prevValue, value) ==
    <<prevValue[1], (Num(prevValue) + Num(value) + 1) % Modulus>>

----------------------------------------------------------------------------
(* JS objects used as maps: a sequence of [key, value] in insertion order  *)

KeysOf(obj) == [i \in 1..Len(obj) |-> obj[i].key]

HasKey(obj, key) == \E i \in 1..Len(obj) : obj[i].key = key

\* obj[key]: undefined when the property is missing.
Lookup(obj, key) ==
    IF HasKey(obj, key)
    THEN obj[CHOOSE i \in 1..Len(obj) : obj[i].key = key].value
    ELSE Undefined

\* obj[key] = value: an existing property keeps its place.
Put(obj, key, value) ==
    IF HasKey(obj, key)
    THEN [i \in 1..Len(obj) |-> IF obj[i].key = key THEN [key |-> key, value |-> value] ELSE obj[i]]
    ELSE Append(obj, [key |-> key, value |-> value])

\* delete obj[key]
Remove(obj, key) == SelectSeq(obj, LAMBDA e : e.key # key)

----------------------------------------------------------------------------
(* Strings are sequences of characters                                     *)

\* string.indexOf(ch) for one character: -1 when absent.
IndexOfChar(s, ch) ==
    IF \E i \in 1..Len(s) : s[i] = ch
    THEN (CHOOSE i \in 1..Len(s) : s[i] = ch /\ \A j \in 1..(i - 1) : s[j] # ch) - 1
    ELSE -1

\* string.slice(0, end)
SliceTo(s, end) == SubSeq(s, 1, end)

OccursAt(s, sub, at) ==
    /\ at + Len(sub) <= Len(s)
    /\ \A j \in 1..Len(sub) : s[at + j] = sub[j]

\* string.indexOf(sub): the first place sub occurs at, -1 when it does not.
IndexOf(s, sub) ==
    IF \E at \in 0..Len(s) : OccursAt(s, sub, at)
    THEN CHOOSE at \in 0..Len(s) :
            OccursAt(s, sub, at) /\ \A b \in 0..(at - 1) : ~OccursAt(s, sub, b)
    ELSE -1

\* A variant of PatternThrows that differs from the code; the properties must tell it apart.
PatternThrowsUnlessLast(pattern) ==
    IndexOfChar(pattern, "*") >= 0 /\ pattern[Len(pattern)] # "*"
\* matchesPattern() throws: an asterisk that is not the last character.
PatternThrows(pattern) ==
    LET asteriskIndex == IndexOfChar(pattern, "*")
    IN  asteriskIndex >= 0 /\ asteriskIndex # Len(pattern) - 1

\* A variant of MatchesPattern that differs from the code; the properties must tell it apart.
MatchesPatternAnywhere(string, pattern) ==
    LET asteriskIndex == IndexOfChar(pattern, "*")
    IN  IF asteriskIndex >= 0
        THEN IndexOf(string, SliceTo(pattern, asteriskIndex)) >= 0
        ELSE string = pattern
\* matchesPattern(string, pattern), for a pattern that does not throw.
MatchesPattern(string, pattern) ==
    LET asteriskIndex == IndexOfChar(pattern, "*")
    IN  IF asteriskIndex >= 0
        THEN IndexOf(string, SliceTo(pattern, asteriskIndex)) = 0
        ELSE string = pattern

----------------------------------------------------------------------------
(* The instances                                                           *)

\* this.id of a MemoryStorage made without an id.
NoId == "none"
\* The root MemoryStorage and the facades made by createSharedInstance().
Facades == {NoId, "1", "2", "3"}
\* The CachedStorage instances and the facade each one wraps.
Insts == {"c1", "c2"}
StorageOf(c) == IF c = "c1" THEN "1" ELSE "2"

\* A listener closure: of a CachedStorage instance (numbered per start()), or a
\* caller's own callback.
CsListener(c, n) == <<"cs", c, n>>
Probe(p) == <<"probe", p, 0>>

\* The state a call and the listeners it invokes read and write.
World ==
    [data |-> data, cache |-> cache, flushTimer |-> flushTimer, timers |-> timers,
     delivered |-> <<>>, err |-> "none"]

Throw(w, error) == [w EXCEPT !.err = error]

----------------------------------------------------------------------------
(* MemoryStorage                                                           *)

MsHas(d, key) == HasKey(d, key)

MsGetRaw(d, key) == IF ~MsHas(d, key) THEN Null ELSE Lookup(d, key)
MsGet(d, key) ==
    IF ~MsHas(d, key)
    THEN Null
    ELSE LET item == Lookup(d, key)
         IN  IF stringifyStoredValues /\ item # Undefined
             THEN JsonRoundTrip(item)
             ELSE item

MsKeys(d) == KeysOf(d)

\* The length of a Date's ISO string, as in '2000-01-01T00:00:00.000Z'.
IsoLength == 24
\* JSON.stringify(value).length: a string is quoted, with its quotes and backslashes
\* escaped; a Date becomes its quoted ISO string; null becomes null.
JsonStringifyLength(v) ==
    CASE v[1] = "text" ->
             Len(v[2]) + Cardinality({i \in 1..Len(v[2]) : v[2][i] \in {"\"", "\\"}}) + 2
      [] v[1] = "date" -> IsoLength + 2
      [] v[1] = "null" -> 4

\* A variant of MsGetRecordSize that differs from the code; the properties must tell it apart.
MsGetRecordSizeOfAnyValue(d, key) ==
    IF ~MsHas(d, key)
    THEN 0
    ELSE LET value == Lookup(d, key)
         IN  (Len(key) + IF value # Undefined THEN JsonStringifyLength(value) ELSE 0) * 2
\* A variant of MsGetRecordSize that differs from the code; the properties must tell it apart.
MsGetRecordSizeInCharacters(d, key) ==
    IF ~MsHas(d, key)
    THEN 0
    ELSE LET value == Lookup(d, key)
         IN  Len(key) + IF value # Null /\ value # Undefined
                        THEN JsonStringifyLength(value)
                        ELSE 0
\* MemoryStorage.getRecordSize(key)
MsGetRecordSize(d, key) ==
    IF ~MsHas(d, key)
    THEN 0
    ELSE LET value == Lookup(d, key)
         IN  (Len(key) + IF value # Null /\ value # Undefined
                         THEN JsonStringifyLength(value)
                         ELSE 0) * 2

\* A variant of Notifies that differs from the code; the properties must tell it apart.
NotifiesAll(id, entry) == id # NoId /\ entry.storageId # NoId
\* A variant of Notifies that differs from the code; the properties must tell it apart.
NotifiesAnonymous(id, entry) == entry.storageId # id
\* triggerExternalChangeListeners(): whether a write through facade `id` calls `entry`.
Notifies(id, entry) ==
    /\ id # NoId
    /\ entry.storageId # NoId
    /\ entry.storageId # id

RECURSIVE MsSetW(_, _, _, _, _)

\* A variant of ScheduleFlush that differs from the code; the properties must tell it apart.
ScheduleFlushAlways(w, c) ==
    [w EXCEPT !.flushTimer[c] = "armed", !.timers[c] = @ + 1]
\* CachedStorage.scheduleFlush()
ScheduleFlush(w, c) ==
    IF w.flushTimer[c] = "none"
    THEN [w EXCEPT !.flushTimer[c] = "armed", !.timers[c] = @ + 1]
    ELSE w

RECURSIVE FlushLoop(_, _, _, _, _)
\* CachedStorage.flush(): the loop over Object.keys(this.cache), taken before it.
FlushLoop(w, c, keys, i, depth) ==
    IF w.err # "none" \/ i > Len(keys)
    THEN w
    ELSE FlushLoop(MsSetW(w, StorageOf(c), keys[i], Lookup(w.cache[c], keys[i]), depth),
                   c, keys, i + 1, depth)

\* A variant of FlushEnd that differs from the code; the properties must tell it apart.
FlushEndKeepsCache(w, c) ==
    [w EXCEPT !.timers[c] = IF w.flushTimer[c] = "armed" THEN @ - 1 ELSE @,
              !.flushTimer[c] = "none"]
\* A variant of FlushEnd that differs from the code; the properties must tell it apart.
FlushEndKeepsTimer(w, c) == [w EXCEPT !.cache[c] = <<>>]
\* CachedStorage.flush(): after the loop.
FlushEnd(w, c) ==
    [w EXCEPT !.cache[c] = <<>>,
              !.timers[c] = IF w.flushTimer[c] = "armed" THEN @ - 1 ELSE @,
              !.flushTimer[c] = "none"]

\* CachedStorage.flush(), `depth` flush() calls being on the stack already.
Flush(w, c, depth) ==
    IF w.err # "none"
    THEN w
    ELSE IF depth > MaxDepth
    THEN Throw(w, "RangeError")
    ELSE LET after == FlushLoop(w, c, KeysOf(w.cache[c]), 1, depth)
         IN  IF after.err # "none" THEN after ELSE FlushEnd(after, c)

\* A variant of Reconcile that differs from the code; the properties must tell it apart.
ReconcileDiscards(w, c, key, value, depth) ==
    IF HasKey(w.cache[c], key)
    THEN [w EXCEPT !.cache[c] = Remove(@, key)]
    ELSE w
\* A variant of Reconcile that differs from the code; the properties must tell it apart.
ReconcileKeeps(w, c, key, value, depth) ==
    IF HasKey(w.cache[c], key) /\ value # Null /\ hasMerge[c]
    THEN Flush([w EXCEPT !.cache[c] = Put(@, key, Merge(key, Lookup(@, key), value))],
               c, depth + 1)
    ELSE w
\* A variant of Reconcile that differs from the code; the properties must tell it apart.
ReconcileNoFlush(w, c, key, value, depth) ==
    IF HasKey(w.cache[c], key)
    THEN IF value = Null
         THEN [w EXCEPT !.cache[c] = Remove(@, key)]
         ELSE IF hasMerge[c]
         THEN [w EXCEPT !.cache[c] = Put(@, key, Merge(key, Lookup(@, key), value))]
         ELSE [w EXCEPT !.cache[c] = Remove(@, key)]
    ELSE w
\* The listener start() registers: reconcile the buffer with an external write.
Reconcile(w, c, key, value, depth) ==
    IF HasKey(w.cache[c], key)
    THEN IF value = Null
         THEN [w EXCEPT !.cache[c] = Remove(@, key)]
         ELSE IF hasMerge[c]
         THEN Flush([w EXCEPT !.cache[c] = Put(@, key, Merge(key, Lookup(@, key), value))],
                    c, depth + 1)
         ELSE [w EXCEPT !.cache[c] = Remove(@, key)]
    ELSE w

\* listener({ key, value, prevValue }); a probe also notes the table it finds.
CallListener(w, entry, key, value, prevValue, depth) ==
    IF entry.listener[1] = "probe"
    THEN [w EXCEPT !.delivered =
             Append(@, [storageId |-> entry.storageId, listener |-> entry.listener,
                        key |-> key, value |-> value, prevValue |-> prevValue,
                        table |-> w.data])]
    ELSE Reconcile(w, entry.listener[2], key, value, depth)

RECURSIVE TriggerExternalChangeListeners(_, _, _, _, _, _, _, _)
\* MemoryStorage.triggerExternalChangeListeners(), over the registry as it was when
\* the loop began.
TriggerExternalChangeListeners(w, id, key, value, prevValue, entries, i, depth) ==
    IF w.err # "none" \/ i > Len(entries)
    THEN w
    ELSE TriggerExternalChangeListeners(
             IF Notifies(id, entries[i])
             THEN CallListener(w, entries[i], key, value, prevValue, depth)
             ELSE w,
             id, key, value, prevValue, entries, i + 1, depth)

\* A variant of MsSetW that differs from the code; the properties must tell it apart.
MsSetWNotifiesFirst(w, id, key, value, depth) ==
    IF w.err # "none"
    THEN w
    ELSE LET prevValue == MsGet(w.data, key)
             after == TriggerExternalChangeListeners(w, id, key, value, prevValue,
                                                     listeners, 1, depth)
         IN  [after EXCEPT !.data = Put(@, key, value)]
\* MemoryStorage.set(key, value) through facade `id`.
MsSetW(w, id, key, value, depth) ==
    IF w.err # "none"
    THEN w
    ELSE LET prevValue == MsGet(w.data, key)
         IN  TriggerExternalChangeListeners([w EXCEPT !.data = Put(@, key, value)],
                 id, key, value, prevValue, listeners, 1, depth)

\* MemoryStorage.delete(key) through facade `id`.
MsDeleteW(w, id, key) ==
    LET prevValue == MsGet(w.data, key)
    IN  TriggerExternalChangeListeners([w EXCEPT !.data = Remove(@, key)],
            id, key, Null, prevValue, listeners, 1, 0)

----------------------------------------------------------------------------
(* CachedStorage                                                           *)

RECURSIVE ShouldCacheKeyFrom(_, _, _)
\* CachedStorage.shouldCacheKey(): the loop over this.options.cachedKeys.
\* "throw" when matchesPattern() throws before a pattern matches.
ShouldCacheKeyFrom(patterns, i, key) ==
    IF i > Len(patterns)
    THEN "no"
    ELSE IF PatternThrows(patterns[i])
    THEN "throw"
    ELSE IF MatchesPattern(key, patterns[i])
    THEN "yes"
    ELSE ShouldCacheKeyFrom(patterns, i + 1, key)

ShouldCacheKey(c, key) == ShouldCacheKeyFrom(cachedKeys[c], 1, key)

\* A variant of ShouldCache that differs from the code; the properties must tell it apart.
ShouldCacheInBackground(c, key) == ShouldCacheKey(c, key)
\* A variant of ShouldCache that differs from the code; the properties must tell it apart.
ShouldCacheAnyKey(c, key) == IF ~active[c] THEN "no" ELSE "yes"
\* CachedStorage.shouldCache()
ShouldCache(c, key) ==
    IF ~active[c]
    THEN "no"
    ELSE ShouldCacheKey(c, key)

\* CachedStorage.has(key), in world w
CsHasW(w, c, key) == HasKey(w.cache[c], key) \/ MsHas(w.data, key)

\* A variant of CsGetW that differs from the code; the properties must tell it apart.
CsGetFromStorage(w, c, key) == MsGet(w.data, key)
\* CachedStorage.get(key), in world w
CsGetW(w, c, key) ==
    IF HasKey(w.cache[c], key)
    THEN Lookup(w.cache[c], key)
    ELSE MsGet(w.data, key)

\* A variant of CsKeysW that differs from the code; the properties must tell it apart.
CsKeysWithBuffer(w, c) ==
    MsKeys(w.data) \o SelectSeq(KeysOf(w.cache[c]), LAMBDA key : ~MsHas(w.data, key))
\* CachedStorage.keys()
CsKeysW(w, c) == MsKeys(w.data)

\* A variant of CsSetW that differs from the code; the properties must tell it apart.
CsSetWriteThroughToo(w, c, key, value) ==
    IF value = Undefined
    THEN MsDeleteW(w, StorageOf(c), key)
    ELSE IF ShouldCache(c, key) = "throw"
    THEN Throw(w, "InvalidPattern")
    ELSE IF ShouldCache(c, key) = "yes"
    THEN MsSetW(ScheduleFlush([w EXCEPT !.cache[c] = Put(@, key, value)], c),
                StorageOf(c), key, value, 0)
    ELSE MsSetW(w, StorageOf(c), key, value, 0)
\* CachedStorage.set(key, value)
CsSetW(w, c, key, value) ==
    IF value = Undefined
    THEN MsDeleteW(w, StorageOf(c), key)
    ELSE IF ShouldCache(c, key) = "throw"
    THEN Throw(w, "InvalidPattern")
    ELSE IF ShouldCache(c, key) = "yes"
    THEN ScheduleFlush([w EXCEPT !.cache[c] = Put(@, key, value)], c)
    ELSE MsSetW(w, StorageOf(c), key, value, 0)

\* A variant of CsDeleteW that differs from the code; the properties must tell it apart.
CsDeleteKeepsBuffer(w, c, key) == MsDeleteW(w, StorageOf(c), key)
\* CachedStorage.delete(key)
CsDeleteW(w, c, key) ==
    MsDeleteW([w EXCEPT !.cache[c] = Remove(@, key)], StorageOf(c), key)

\* The Timer runs a scheduled callback: the handle this.flushTimer holds is spent.
TimerFires(w, c) ==
    [w EXCEPT !.timers[c] = @ - 1,
              !.flushTimer[c] = IF @ = "armed" THEN "fired" ELSE @]

\* The unsubscribe function onExternalChange(listener) returns.
Unsubscribed(entries, listener) == SelectSeq(entries, LAMBDA e : e.listener # listener)

\* A closure start() has not made yet: closures differ only by identity.
FreshListener(c) ==
    CHOOSE n \in 0..Len(listeners) :
        /\ \A i \in 1..Len(listeners) : listeners[i].listener # CsListener(c, n)
        /\ \A m \in 0..(n - 1) : \E i \in 1..Len(listeners) : listeners[i].listener = CsListener(c, m)

----------------------------------------------------------------------------
(* The calls                                                               *)

NoKey == <<>>

\* An uncaught RangeError ends the run: the state it leaves is the last one.
Running == last.threw # "RangeError"

\* A call as the caller sees it: the buffers as they were when it was made, and the
\* error it threw.
Call(op, who, key, value) ==
    [op |-> op, who |-> who, key |-> key, value |-> value, before |-> cache,
     threw |-> "none"]

\* The call ends: the state is what the call and its listeners left, also when it threw.
Commit(w, call) ==
    /\ data' = w.data
    /\ cache' = w.cache
    /\ flushTimer' = w.flushTimer
    /\ timers' = w.timers
    /\ delivered' = w.delivered
    /\ last' = [call EXCEPT !.threw = w.err]

CsSet(c, key, value) ==
    /\ Running
    /\ UNCHANGED objects
    /\ Commit(CsSetW(World, c, key, value), Call("set", c, key, value))
    /\ UNCHANGED <<listeners, stringifyStoredValues, isStarted, current, active,
                   cachedKeys, hasMerge>>

CsDelete(c, key) ==
    /\ Running
    /\ UNCHANGED objects
    /\ Commit(CsDeleteW(World, c, key), Call("delete", c, key, Undefined))
    /\ UNCHANGED <<listeners, stringifyStoredValues, isStarted, current, active,
                   cachedKeys, hasMerge>>

CsFlush(c) ==
    /\ Running
    /\ UNCHANGED objects
    /\ Commit(Flush(World, c, 0), Call("flush", c, NoKey, Undefined))
    /\ UNCHANGED <<listeners, stringifyStoredValues, isStarted, current, active,
                   cachedKeys, hasMerge>>

\* The flush delay passes: the Timer calls flush().
TimerFire(c) ==
    /\ Running
    /\ UNCHANGED objects
    /\ timers[c] > 0
    /\ Commit(Flush(TimerFires(World, c), c, 0), Call("timer", c, NoKey, Undefined))
    /\ UNCHANGED <<listeners, stringifyStoredValues, isStarted, current, active,
                   cachedKeys, hasMerge>>

\* The tab comes to the foreground.
TabActive(c) ==
    /\ Running
    /\ UNCHANGED objects
    /\ ~active[c]
    /\ active' = [active EXCEPT ![c] = TRUE]
    /\ last' = Call("active", c, NoKey, Undefined)
    /\ delivered' = <<>>
    /\ UNCHANGED <<data, listeners, stringifyStoredValues, cache, flushTimer, timers,
                   isStarted, current, cachedKeys, hasMerge>>

\* The tab goes to the background: the watcher calls its onInactive listener, flush().
TabInactive(c) ==
    /\ Running
    /\ UNCHANGED objects
    /\ active[c]
    /\ active' = [active EXCEPT ![c] = FALSE]
    /\ Commit(Flush(World, c, 0), Call("inactive", c, NoKey, Undefined))
    /\ UNCHANGED <<listeners, stringifyStoredValues, isStarted, current, cachedKeys,
                   hasMerge>>

\* A variant of StartRegisters that differs from the code; the properties must tell it apart.
StartRegistersAnonymous(c) ==
    Append(listeners, [storageId |-> NoId, listener |-> CsListener(c, FreshListener(c))])
\* start(): this.onExternalChange(...)
StartRegisters(c) ==
    Append(listeners, [storageId |-> StorageOf(c), listener |-> CsListener(c, FreshListener(c))])

\* A variant of AlreadyStarted that differs from the code; the properties must tell it apart.
NeverAlreadyStarted(c) == FALSE
\* start(): if (this._isStarted) throw
AlreadyStarted(c) == isStarted[c]

CsStart(c) ==
    /\ Running
    /\ UNCHANGED objects
    /\ Len(listeners) < MaxListeners
    /\ delivered' = <<>>
    /\ IF AlreadyStarted(c)
       THEN /\ last' = [Call("start", c, NoKey, Undefined) EXCEPT !.threw = "AlreadyStarted"]
            /\ UNCHANGED <<isStarted, current, listeners>>
       ELSE /\ last' = Call("start", c, NoKey, Undefined)
            /\ isStarted' = [isStarted EXCEPT ![c] = TRUE]
            /\ current' = [current EXCEPT ![c] = FreshListener(c)]
            /\ listeners' = StartRegisters(c)
    /\ UNCHANGED <<data, stringifyStoredValues, cache, flushTimer, timers, active,
                   cachedKeys, hasMerge>>

\* A variant of StopUnregisters that differs from the code; the properties must tell it apart.
StopKeepsListener(c, w) == listeners
\* A variant of StopFlushes that differs from the code; the properties must tell it apart.
StopSkipsFlush(w, c, depth) == w
\* stop(): this.flush()
StopFlushes(w, c, depth) == Flush(w, c, depth)
\* stop(): this.stopListeningToExternalChanges(), not reached when flush() threw
StopUnregisters(c, w) ==
    IF w.err = "none"
    THEN Unsubscribed(listeners, CsListener(c, current[c]))
    ELSE listeners

\* A variant of NotStarted that differs from the code; the properties must tell it apart.
NeverNotStarted(c) == FALSE
\* stop(): if (!this._isStarted) throw
NotStarted(c) == ~isStarted[c]

CsStop(c) ==
    /\ Running
    /\ UNCHANGED objects
    /\ IF NotStarted(c)
       THEN /\ last' = [Call("stop", c, NoKey, Undefined) EXCEPT !.threw = "NotStarted"]
            /\ delivered' = <<>>
            /\ UNCHANGED <<data, listeners, stringifyStoredValues, cache, flushTimer, timers,
                           isStarted, current, active, cachedKeys, hasMerge>>
       ELSE /\ isStarted' = [isStarted EXCEPT ![c] = FALSE]
            /\ Commit(StopFlushes(World, c, 0), Call("stop", c, NoKey, Undefined))
            /\ listeners' = StopUnregisters(c, StopFlushes(World, c, 0))
            /\ UNCHANGED <<stringifyStoredValues, current, active, cachedKeys, hasMerge>>

CacheKey(c, pattern) ==
    /\ Running
    /\ UNCHANGED objects
    /\ Len(cachedKeys[c]) < MaxPatterns
    /\ cachedKeys' = [cachedKeys EXCEPT ![c] = Append(@, pattern)]
    /\ last' = Call("cacheKey", c, pattern, Undefined)
    /\ delivered' = <<>>
    /\ UNCHANGED <<data, listeners, stringifyStoredValues, cache, flushTimer, timers,
                   isStarted, current, active, hasMerge>>

\* storage.set(key, value), called on a MemoryStorage facade directly.
MsSet(id, key, value) ==
    /\ Running
    /\ UNCHANGED objects
    /\ Commit(MsSetW(World, id, key, value, 0), Call("Storage.set", id, key, value))
    /\ UNCHANGED <<listeners, stringifyStoredValues, isStarted, current, active,
                   cachedKeys, hasMerge>>

\* storage.delete(key), called on a MemoryStorage facade directly.
MsDelete(id, key) ==
    /\ Running
    /\ UNCHANGED objects
    /\ Commit(MsDeleteW(World, id, key), Call("Storage.delete", id, key, Undefined))
    /\ UNCHANGED <<listeners, stringifyStoredValues, isStarted, current, active,
                   cachedKeys, hasMerge>>

\* storage.onExternalChange(listener), called on a MemoryStorage facade directly.
MsOnExternalChange(id, p) ==
    /\ Running
    /\ UNCHANGED objects
    /\ Len(listeners) < MaxListeners
    /\ listeners' = Append(listeners, [storageId |-> id, listener |-> Probe(p)])
    /\ last' = Call("Storage.onExternalChange", id, NoKey, Undefined)
    /\ delivered' = <<>>
    /\ UNCHANGED <<data, stringifyStoredValues, cache, flushTimer, timers, isStarted,
                   current, active, cachedKeys, hasMerge>>

\* The unsubscribe function that storage.onExternalChange(p), called on facade `id`,
\* returned for a registration still in the registry.
MsUnsubscribe(id, p) ==
    /\ Running
    /\ UNCHANGED objects
    /\ \E i \in 1..Len(listeners) :
        listeners[i] = [storageId |-> id, listener |-> Probe(p)]
    /\ listeners' = Unsubscribed(listeners, Probe(p))
    /\ last' = Call("unsubscribe", id, NoKey, Probe(p))
    /\ delivered' = <<>>
    /\ UNCHANGED <<data, stringifyStoredValues, cache, flushTimer, timers, isStarted,
                   current, active, cachedKeys, hasMerge>>

----------------------------------------------------------------------------
(* Specifications                                                          *)

\* The keys "ab" and "ac"
K1 == <<"a", "b">>
K2 == <<"a", "c">>
\* The patterns "ab" (K1 only), "a*" (both keys), "b*" (neither) and "*a" (malformed)
ExactAB == <<"a", "b">>
PrefixA == <<"a", "*">>
PrefixB == <<"b", "*">>
Malformed == <<"*", "a">>

\* The names of the MemoryStorage objects a program makes, and "not made yet".
Objs == {"a", "b", "c"}
NoStorage == [id |-> NoId, made |-> FALSE]
\* The objects are named in the order in which they are made.
NextObject(o) ==
    /\ ~storages[o].made
    /\ \A earlier \in (CASE o = "a" -> {} [] o = "b" -> {"a"} [] OTHER -> {"a", "b"}) :
          storages[earlier].made

InitStore ==
    /\ data = <<>>
    /\ listeners = <<>>
    /\ delivered = <<>>
    /\ storages = [o \in Objs |-> NoStorage]
    /\ dataSource = [o \in Objs |-> <<>>]
    /\ externalChangeListeners = [o \in Objs |-> <<>>]
    /\ last = [op |-> "new", who |-> "", key |-> NoKey, value |-> Undefined,
               before |-> [c \in Insts |-> <<>>], threw |-> "none"]

InitCached ==
    /\ cache = [c \in Insts |-> <<>>]
    /\ flushTimer = [c \in Insts |-> "none"]
    /\ timers = [c \in Insts |-> 0]
    /\ isStarted = [c \in Insts |-> FALSE]
    /\ current = [c \in Insts |-> 0]
    /\ active = [c \in Insts |-> FALSE]
    /\ cachedKeys = [c \in Insts |-> <<>>]

\* One key, two CachedStorage instances over the facades "1" and "2", a third
\* facade "3" and the root facade written directly.
Init ==
    /\ InitStore
    /\ InitCached
    /\ stringifyStoredValues \in BOOLEAN
    /\ hasMerge \in {[c \in Insts |-> FALSE], [c \in Insts |-> c = "c1"], [c \in Insts |-> TRUE]}

Keys == {K1}
Patterns == {PrefixA, PrefixB}
SetValues == {Str(0), Date(1), Undefined}
WrittenValues == {Str(1)}
Writers == Facades

Next ==
    \/ \E c \in Insts, key \in Keys, value \in SetValues : CsSet(c, key, value)
    \/ \E c \in Insts, key \in Keys : CsDelete(c, key)
    \/ \E c \in Insts : CsFlush(c)
    \/ \E c \in Insts : TimerFire(c)
    \/ \E c \in Insts : TabActive(c)
    \/ \E c \in Insts : TabInactive(c)
    \/ \E c \in Insts : CsStart(c)
    \/ \E c \in Insts : CsStop(c)
    \/ \E c \in Insts, pattern \in Patterns : CacheKey(c, pattern)
    \/ \E id \in Writers, key \in Keys, value \in WrittenValues : MsSet(id, key, value)
    \/ \E id \in Writers, key \in Keys : MsDelete(id, key)

Spec == Init /\ [][Next]_vars

\* The shared store alone: the root facade, two facades with an identity, and the
\* callers' own listeners.
InitBus ==
    /\ InitStore
    /\ InitCached
    /\ stringifyStoredValues \in BOOLEAN
    /\ hasMerge = [c \in Insts |-> FALSE]

BusFacades == {NoId, "1", "2"}
BusListeners == {"f", "g"}
BusValues == {Str(0), Date(1), Null}

NextBus ==
    \/ \E id \in BusFacades, key \in Keys, value \in BusValues : MsSet(id, key, value)
    \/ \E id \in BusFacades, key \in Keys : MsDelete(id, key)
    \/ \E id \in BusFacades, p \in BusListeners : MsOnExternalChange(id, p)
    \/ \E id \in BusFacades, p \in BusListeners : MsUnsubscribe(id, p)

SpecBus == InitBus /\ [][NextBus]_vars

\* Two keys, both matching the one pattern in use, with the tabs in the foreground
\* from the start: what a call does to the keys it is not about.
InitKeys ==
    /\ InitStore
    /\ cache = [c \in Insts |-> <<>>]
    /\ flushTimer = [c \in Insts |-> "none"]
    /\ timers = [c \in Insts |-> 0]
    /\ isStarted = [c \in Insts |-> FALSE]
    /\ current = [c \in Insts |-> 0]
    /\ active = [c \in Insts |-> TRUE]
    /\ cachedKeys = [c \in Insts |-> <<>>]
    /\ stringifyStoredValues = TRUE
    /\ hasMerge \in {[c \in Insts |-> FALSE], [c \in Insts |-> c = "c1"], [c \in Insts |-> TRUE]}

TwoKeys == {K1, K2}
WrittenTwoKeys == {Str(1), Date(1)}

NextKeys ==
    \/ \E c \in Insts, key \in TwoKeys : CsSet(c, key, Str(0))
    \/ \E c \in Insts, key \in TwoKeys : CsDelete(c, key)
    \/ \E c \in Insts : CsFlush(c)
    \/ \E c \in Insts : TimerFire(c)
    \/ \E c \in Insts : CsStart(c)
    \/ \E c \in Insts : CsStop(c)
    \/ \E c \in Insts : CacheKey(c, PrefixA)
    \/ \E key \in TwoKeys, value \in WrittenTwoKeys : MsSet("3", key, value)

SpecKeys == InitKeys /\ [][NextKeys]_vars

----------------------------------------------------------------------------
(* MemoryStorage objects: roots and the instances made by                  *)
(* createSharedInstance(), each with its references to a table and to a    *)
(* listener registry                                                       *)

\* The object whose _data the object o reads and writes through this.data, and the
\* object whose externalChangeListeners its getter and setter reach.
TableOf(o) == dataSource[storages[o].data]
RegistryOf(o) == externalChangeListeners[storages[o].listeners]

\* new MemoryStorage({ id, stringifyStoredValues }): a root, with its own _data and
\* its own externalChangeListeners.
NewStorage(o, id) ==
    /\ Running
    /\ NextObject(o)
    /\ storages' = [storages EXCEPT ![o] =
          [id |-> id, made |-> TRUE, stringifyStoredValues |-> stringifyStoredValues,
           data |-> o, listeners |-> o, from |-> o]]
    /\ dataSource' = [dataSource EXCEPT ![o] = <<>>]
    /\ externalChangeListeners' = [externalChangeListeners EXCEPT ![o] = <<>>]
    /\ last' = Call("new MemoryStorage", o, NoKey, Undefined)
    /\ delivered' = <<>>
    /\ UNCHANGED <<data, listeners, stringifyStoredValues, cache, flushTimer, timers,
                   isStarted, current, active, cachedKeys, hasMerge>>

\* A variant of SharedDataSource that differs from the code; the properties must tell it apart.
OwnDataSource(parent, o) == o
\* createSharedInstance(): dataSource: this.data
SharedDataSource(parent, o) == storages[parent].data

\* A variant of SharedListeners that differs from the code; the properties must tell it apart.
OwnListeners(parent, o) == o
\* createSharedInstance(): getExternalChangeListeners, setExternalChangeListeners
SharedListeners(parent, o) == storages[parent].listeners

\* parent.createSharedInstance(id), the new object being named o
CreateSharedInstance(parent, o, id) ==
    /\ Running
    /\ storages[parent].made
    /\ NextObject(o)
    /\ IF id = NoId
       THEN /\ last' = [Call("createSharedInstance", parent, NoKey, Undefined)
                           EXCEPT !.threw = "IdRequired"]
            /\ UNCHANGED storages
       ELSE /\ last' = Call("createSharedInstance", parent, NoKey, Undefined)
            /\ storages' = [storages EXCEPT ![o] =
                  [id |-> id, made |-> TRUE,
                   stringifyStoredValues |-> storages[parent].stringifyStoredValues,
                   data |-> SharedDataSource(parent, o),
                   listeners |-> SharedListeners(parent, o),
                   from |-> parent]]
    /\ delivered' = <<>>
    /\ UNCHANGED <<data, listeners, stringifyStoredValues, cache, flushTimer, timers,
                   isStarted, current, active, cachedKeys, hasMerge, dataSource,
                   externalChangeListeners>>

\* has(key), get(key) and keys() called on the object o
ObjHas(o, key) == HasKey(TableOf(o), key)
ObjRead(o, table, key) ==
    IF ~HasKey(table, key)
    THEN Null
    ELSE LET item == Lookup(table, key)
         IN  IF storages[o].stringifyStoredValues /\ item # Undefined
             THEN JsonRoundTrip(item)
             ELSE item
ObjGet(o, key) == ObjRead(o, TableOf(o), key)
ObjKeys(o) == KeysOf(TableOf(o))

\* The object's table after set()/delete() has changed it and called the listeners.
ObjWritten(o, table, key, value) ==
    TriggerExternalChangeListeners([World EXCEPT !.data = table], storages[o].id,
        key, value, ObjGet(o, key), RegistryOf(o), 1, 0)

ObjCommit(o, w, call) ==
    /\ dataSource' = [dataSource EXCEPT ![storages[o].data] = w.data]
    /\ delivered' = w.delivered
    /\ last' = [call EXCEPT !.threw = w.err]
    /\ UNCHANGED <<data, listeners, stringifyStoredValues, cache, flushTimer, timers,
                   isStarted, current, active, cachedKeys, hasMerge, storages,
                   externalChangeListeners>>

\* set(key, value) called on the object o
ObjSet(o, key, value) ==
    /\ Running
    /\ storages[o].made
    /\ ObjCommit(o, ObjWritten(o, Put(TableOf(o), key, value), key, value),
                 Call("Object.set", o, key, value))

\* delete(key) called on the object o
ObjDelete(o, key) ==
    /\ Running
    /\ storages[o].made
    /\ ObjCommit(o, ObjWritten(o, Remove(TableOf(o), key), key, Null),
                 Call("Object.delete", o, key, Undefined))

\* onExternalChange(p) called on the object o
ObjOnExternalChange(o, p) ==
    /\ Running
    /\ storages[o].made
    /\ Len(RegistryOf(o)) < MaxListeners
    /\ externalChangeListeners' =
          [externalChangeListeners EXCEPT ![storages[o].listeners] =
              Append(@, [storageId |-> storages[o].id, listener |-> Probe(p)])]
    /\ last' = Call("Object.onExternalChange", o, NoKey, Probe(p))
    /\ delivered' = <<>>
    /\ UNCHANGED <<data, listeners, stringifyStoredValues, cache, flushTimer, timers,
                   isStarted, current, active, cachedKeys, hasMerge, storages,
                   dataSource>>

InitObjects ==
    /\ InitStore
    /\ InitCached
    /\ stringifyStoredValues \in BOOLEAN
    /\ hasMerge = [c \in Insts |-> FALSE]

ObjIds == {NoId, "1", "2"}
ObjValues == {Str(0), Date(1)}

NextObjects ==
    \/ \E o \in Objs : NewStorage(o, NoId)
    \/ \E parent \in Objs, o \in Objs, id \in ObjIds : CreateSharedInstance(parent, o, id)
    \/ \E o \in Objs, key \in Keys, value \in ObjValues : ObjSet(o, key, value)
    \/ \E o \in Objs, key \in Keys : ObjDelete(o, key)
    \/ \E o \in Objs : ObjOnExternalChange(o, "f")

SpecObjects == InitObjects /\ [][NextObjects]_vars

----------------------------------------------------------------------------
(* What a caller reads in the current state                                *)

CsGet(c, key) == CsGetW(World, c, key)
CsHas(c, key) == CsHasW(World, c, key)
Buffered(c, key) == HasKey(cache[c], key)
StorageGet(key) == MsGet(data, key)
StorageHas(key) == MsHas(data, key)

\* What storage.get() returns for a stored value.
AsRead(v) == IF stringifyStoredValues /\ v # Undefined THEN JsonRoundTrip(v) ELSE v

\* The calls that run flush().
FlushCalls == {"flush", "timer", "inactive", "stop"}

\* Another started CachedStorage with a merge function holds `key` buffered: it
\* reconciles a write of `key` by merging and writing the result back.
OtherMerges(c, key) ==
    \E o \in Insts \ {c} : isStarted[o] /\ hasMerge[o] /\ Buffered(o, key)

----------------------------------------------------------------------------
(* C1 *)

\* C1, as stated: a buffered set(k, v) leaves the backend alone and is read back at
\* once, and after the next flush() the backend's get(k) equals v.
C1_FlushedValueIsV ==
    [][\A c \in Insts, k \in TwoKeys :
        /\ (/\ last'.op = "set" /\ last'.who = c /\ last'.key = k
            /\ last'.value # Undefined /\ active[c] /\ ShouldCacheKey(c, k) = "yes")
           => (data' = data /\ CsGet(c, k)' = last'.value)
        /\ (/\ last'.op \in FlushCalls /\ last'.who = c /\ last'.threw = "none"
            /\ Buffered(c, k))
           => MsGet(data', k) = Lookup(cache[c], k)
      ]_vars

\* C1, amended: a buffered set(k, v) (tab active, k matching a registered pattern, v
\* not undefined) leaves the table unchanged and get(k) returns v at once; after a
\* flush() of the instance that returns, the backend's get(k) is what storage.get()
\* reads for v (v after the JSON round trip, v itself when stringifyStoredValues is
\* false), unless another started CachedStorage with a merge function holds k buffered.
C1_BufferedSetThenFlush ==
    [][\A c \in Insts, k \in TwoKeys :
        /\ (/\ last'.op = "set" /\ last'.who = c /\ last'.key = k
            /\ last'.value # Undefined /\ active[c] /\ ShouldCacheKey(c, k) = "yes")
           => (data' = data /\ CsGet(c, k)' = last'.value)
        /\ (/\ last'.op \in FlushCalls /\ last'.who = c /\ last'.threw = "none"
            /\ Buffered(c, k) /\ ~OtherMerges(c, k))
           => MsGet(data', k) = AsRead(Lookup(cache[c], k))
      ]_vars

\* A flush() has written a buffered Date, which the backend reads back as a string.
C1_Witness ==
    /\ last.op = "flush" /\ last.who = "c1" /\ last.threw = "none"
    /\ Lookup(last.before["c1"], K1) = Date(1)
    /\ stringifyStoredValues
    /\ StorageGet(K1) = Str(1)
    /\ Lookup(data, K1) = Date(1)

----------------------------------------------------------------------------
(* C2 *)

\* The step is a write of a non-absent value to `key` made through a facade of
\* another identity than c's: a direct storage.set(), or a set() that another
\* CachedStorage does not buffer.
ExternalWrite(c, key) ==
    /\ last'.key = key
    /\ last'.value \notin {Null, Undefined}
    /\ \/ last'.op = "Storage.set" /\ last'.who \notin {NoId, StorageOf(c)}
       \/ last'.op = "set" /\ last'.who \in Insts \ {c} /\ ShouldCache(last'.who, key) = "no"

\* C2, as stated: after the external write returns, the backend holds merge(k, b, e),
\* the buffer is empty and get(k) returns merge(k, b, e).
C2_GetReturnsMerged ==
    [][\A c \in Insts, k \in TwoKeys :
        (/\ ExternalWrite(c, k) /\ last'.threw = "none"
         /\ isStarted[c] /\ hasMerge[c] /\ Buffered(c, k))
        => /\ Lookup(data', k) = Merge(k, Lookup(cache[c], k), last'.value)
           /\ cache'[c] = <<>>
           /\ CsGet(c, k)' = Merge(k, Lookup(cache[c], k), last'.value)
      ]_vars

\* C2, amended: when a started CachedStorage with a merge function holds k buffered
\* with value b and a facade of another identity writes a non-absent e to k, then once
\* that write has returned the table holds merge(k, b, e) under k, the buffer is empty
\* and get(k) returns what the backend reads for merge(k, b, e): its JSON round trip,
\* merge(k, b, e) itself when it is JSON-representable or stringifyStoredValues is false.
C2_MergedAndFlushed ==
    [][\A c \in Insts, k \in TwoKeys :
        (/\ ExternalWrite(c, k) /\ last'.threw = "none"
         /\ isStarted[c] /\ hasMerge[c] /\ Buffered(c, k))
        => /\ Lookup(data', k) = Merge(k, Lookup(cache[c], k), last'.value)
           /\ cache'[c] = <<>>
           /\ CsGet(c, k)' = AsRead(Merge(k, Lookup(cache[c], k), last'.value))
      ]_vars

\* A facade of identity "3" wrote to a key that the started, merging c1 held buffered.
C2_Witness ==
    /\ last.op = "Storage.set" /\ last.who = "3" /\ last.key = K1 /\ last.threw = "none"
    /\ isStarted["c1"] /\ hasMerge["c1"]
    /\ HasKey(last.before["c1"], K1)
    /\ Lookup(data, K1) = Merge(K1, Lookup(last.before["c1"], K1), last.value)
    /\ Lookup(data, K1) # last.value
    /\ cache["c1"] = <<>>

----------------------------------------------------------------------------
(* C3 *)

\* C3, as stated: without a merge function the buffered entry is discarded, get(k)
\* then returns the external value e, and a later flush() leaves the backend at e.
C3_GetReturnsExternal ==
    [][\A c \in Insts, k \in TwoKeys :
        /\ (/\ ExternalWrite(c, k) /\ last'.threw = "none"
            /\ isStarted[c] /\ ~hasMerge[c] /\ Buffered(c, k))
           => (~Buffered(c, k)' /\ CsGet(c, k)' = last'.value)
        /\ (/\ last'.op \in FlushCalls /\ last'.who = c /\ ~Buffered(c, k))
           => (MsHas(data', k) = MsHas(data, k) /\ Lookup(data', k) = Lookup(data, k))
      ]_vars

\* C3, amended: without a merge function the buffered entry for k is discarded by the
\* external write of e; afterwards get(k) reads the backend, which returns e as
\* storage.get() reads it (after the JSON round trip when stringifyStoredValues is on)
\* unless another started CachedStorage with a merge function held k buffered and wrote
\* its merge result; a flush() of this instance while it does not hold k buffered, and
\* no other started CachedStorage with a merge function does, leaves the table's entry
\* for k as it is.
C3_DiscardedExternalWins ==
    [][\A c \in Insts, k \in TwoKeys :
        /\ (/\ ExternalWrite(c, k) /\ last'.threw = "none"
            /\ isStarted[c] /\ ~hasMerge[c] /\ Buffered(c, k))
           => /\ ~Buffered(c, k)'
              /\ CsGet(c, k)' = MsGet(data', k)
              /\ ~OtherMerges(c, k) => CsGet(c, k)' = AsRead(last'.value)
        /\ (/\ last'.op \in FlushCalls /\ last'.who = c
            /\ ~Buffered(c, k) /\ ~OtherMerges(c, k))
           => (MsHas(data', k) = MsHas(data, k) /\ Lookup(data', k) = Lookup(data, k))
      ]_vars

\* A facade of identity "3" wrote to a key that the started c1, which has no merge
\* function, held buffered: c1 reads the external value, and still holds the other
\* key buffered.
C3_Witness ==
    /\ last.op = "Storage.set" /\ last.who = "3" /\ last.key = K1 /\ last.threw = "none"
    /\ isStarted["c1"] /\ ~hasMerge["c1"]
    /\ HasKey(last.before["c1"], K1)
    /\ Lookup(last.before["c1"], K1) # last.value
    /\ ~Buffered("c1", K1)
    /\ CsGet("c1", K1) = last.value
    /\ Buffered("c1", K2)

----------------------------------------------------------------------------
(* C4 *)

\* The step is a set(key, v) on c, v not undefined, that returned.
SetReturned(c, key) ==
    /\ last'.op = "set" /\ last'.who = c /\ last'.key = key
    /\ last'.value # Undefined /\ last'.threw = "none"

\* C4, as stated: in every state, set(k, v) followed at once by get(k) returns v, and a
\* buffered key is read from the buffer.
C4_GetReturnsV ==
    [][\A c \in Insts, k \in TwoKeys :
        /\ SetReturned(c, k) => CsGet(c, k)' = last'.value
        /\ Buffered(c, k)' => CsGet(c, k)' = Lookup(cache'[c], k)
      ]_vars

\* C4, amended: set(k, v), v not undefined, followed at once by get(k) returns v itself
\* when the write is buffered; when it is written through, get(k) returns v as the
\* backend reads it (after the JSON round trip when stringifyStoredValues is on),
\* unless another started CachedStorage with a merge function holds k buffered; and a
\* buffered key is always read from the buffer.
C4_SetThenGet ==
    [][\A c \in Insts, k \in TwoKeys :
        /\ (SetReturned(c, k) /\ ShouldCache(c, k) = "yes")
           => CsGet(c, k)' = last'.value
        /\ (SetReturned(c, k) /\ ShouldCache(c, k) = "no" /\ ~OtherMerges(c, k))
           => CsGet(c, k)' = AsRead(last'.value)
        /\ Buffered(c, k)' => CsGet(c, k)' = Lookup(cache'[c], k)
      ]_vars

\* c1 has buffered a value over a different value in the backend, and reads its own.
C4_Witness ==
    /\ last.op = "set" /\ last.who = "c1" /\ last.key = K1 /\ last.threw = "none"
    /\ Buffered("c1", K1)
    /\ StorageHas(K1)
    /\ StorageGet(K1) # last.value
    /\ CsGet("c1", K1) = last.value

----------------------------------------------------------------------------
(* C5 *)

\* C5: after delete(k) has(k) is false and get(k) returns null, whether k was buffered,
\* stored or both; k is no longer buffered, and a flush() of the instance (explicit,
\* timer, inactivity, stop) while no set of k is pending leaves the table's entry for
\* k as it is: k is buffered neither by the instance nor by another started
\* CachedStorage with a merge function (whose own flush the instance's flush can set
\* off).
C5_DeleteRemoves ==
    [][\A c \in Insts, k \in TwoKeys :
        /\ (last'.op = "delete" /\ last'.who = c /\ last'.key = k)
           => /\ last'.threw = "none"
              /\ ~CsHas(c, k)'
              /\ CsGet(c, k)' = Null
              /\ ~Buffered(c, k)'
        /\ (/\ last'.op \in FlushCalls /\ last'.who = c
            /\ ~Buffered(c, k) /\ ~OtherMerges(c, k))
           => (MsHas(data', k) = MsHas(data, k) /\ Lookup(data', k) = Lookup(data, k))
      ]_vars

\* c1 deleted a key it held buffered: the key is gone from the buffer and from the
\* backend, which holds the other key, and the other key is still buffered.
C5_Witness ==
    /\ last.op = "delete" /\ last.who = "c1" /\ last.key = K1
    /\ HasKey(last.before["c1"], K1)
    /\ ~CsHas("c1", K1)
    /\ Buffered("c1", K2)
    /\ KeysOf(data) = <<K2>>

----------------------------------------------------------------------------
(* C6 *)

KeySet(obj) == {obj[i].key : i \in 1..Len(obj)}

----------------------------------------------------------------------------
(* C7 *)

Registered(c) ==
    \E i \in 1..Len(listeners) :
        listeners[i].listener[1] = "cs" /\ listeners[i].listener[2] = c

\* C7, as stated: after stop() returns every buffered key has its buffered value in
\* the backend, the buffer is empty, no timer is armed, the listener is unregistered
\* and the instance is stopped.
C7_StopWritesBufferedValues ==
    [][\A c \in Insts :
        (last'.op = "stop" /\ last'.who = c /\ last'.threw = "none")
        => /\ \A k \in TwoKeys : Buffered(c, k) => Lookup(data', k) = Lookup(cache[c], k)
           /\ cache'[c] = <<>>
           /\ flushTimer'[c] = "none" /\ timers'[c] = 0
           /\ ~Registered(c)'
           /\ ~isStarted'[c]
      ]_vars

\* C7, amended: after stop() returns on a started CachedStorage every key that was
\* buffered has its buffered value in the table, unless another started CachedStorage
\* with a merge function held that key buffered too (it writes its merge result over
\* it); the buffer is empty, no flush timer is armed or scheduled, the instance's
\* external-change listener is no longer registered and the instance is stopped.
C7_StopFlushesAndUnregisters ==
    [][\A c \in Insts :
        (last'.op = "stop" /\ last'.who = c /\ last'.threw = "none")
        => /\ \A k \in TwoKeys :
                (Buffered(c, k) /\ ~OtherMerges(c, k))
                => Lookup(data', k) = Lookup(cache[c], k)
           /\ cache'[c] = <<>>
           /\ flushTimer'[c] = "none" /\ timers'[c] = 0
           /\ ~Registered(c)'
           /\ ~isStarted'[c]
      ]_vars

\* c1 was stopped while it held both keys buffered over other values in the table,
\* with another instance's listener registered.
C7_Witness ==
    /\ last.op = "stop" /\ last.who = "c1" /\ last.threw = "none"
    /\ KeysOf(last.before["c1"]) = <<K2, K1>>
    /\ KeysOf(data) = <<K1, K2>>
    /\ \A k \in TwoKeys : Lookup(data, k) = Lookup(last.before["c1"], k)
    /\ ~isStarted["c1"] /\ isStarted["c2"]
    /\ Len(listeners) = 1

----------------------------------------------------------------------------
(* C8 *)

\* C8: when the flush timer fires, every buffered entry is written to the backend and
\* leaves the buffer (so that, the timer firing eventually, every buffered value is
\* eventually written).
C8_TimerFlushesBuffer ==
    [][\A c \in Insts, k \in TwoKeys :
        (last'.op = "timer" /\ last'.who = c /\ Buffered(c, k))
        => (~Buffered(c, k)' /\ MsHas(data', k))
      ]_vars

\* The same, for the firings whose flush() returns.
C8_ReturningTimerFlushesBuffer ==
    [][\A c \in Insts, k \in TwoKeys :
        (last'.op = "timer" /\ last'.who = c /\ last'.threw = "none" /\ Buffered(c, k))
        => (~Buffered(c, k)' /\ MsHas(data', k))
      ]_vars

\* Between calls a buffered entry always has its flush scheduled.
C8_BufferedHasTimer ==
    \A c \in Insts : (Running /\ cache[c] # <<>>) => (timers[c] = 1 /\ flushTimer[c] = "armed")

----------------------------------------------------------------------------
(* C9 *)

StoreWrites == {"Storage.set", "Storage.delete"}

\* The registrations, in registry order, that are under a defined identity other
\* than id.
OtherIdentities(id) ==
    SelectSeq(listeners, LAMBDA entry : entry.storageId \notin {NoId, id})

\* What a listener is called with by the write `call`.
Notification(entry, call) ==
    [storageId |-> entry.storageId, listener |-> entry.listener, key |-> call.key,
     value |-> IF call.op = "Storage.delete" THEN Null ELSE call.value,
     prevValue |-> MsGet(data, call.key)]

\* What a probe was called with.
Told(d) ==
    [storageId |-> d.storageId, listener |-> d.listener, key |-> d.key,
     value |-> d.value, prevValue |-> d.prevValue]

\* C9: a set or delete through a facade with identity i invokes no listener
\* registered under i, and invokes once each registration under another defined
\* identity (a callback registered twice is called once per registration).
C9_OthersOnceOwnNever ==
    [][\A i \in BusFacades \ {NoId} :
        (last'.op \in StoreWrites /\ last'.who = i)
        => /\ \A n \in 1..Len(delivered') : delivered'[n].storageId # i
           /\ Len(delivered') = Len(OtherIdentities(i))
           /\ \A n \in 1..Len(delivered') :
                Told(delivered'[n]) = Notification(OtherIdentities(i)[n], last')
      ]_vars

\* Facade "1" wrote while listeners were registered under "1" and under "2": only
\* the one under "2" was called.
C9_Witness ==
    /\ last.op = "Storage.set" /\ last.who = "1"
    /\ \E n \in 1..Len(listeners) : listeners[n].storageId = "1"
    /\ \E n \in 1..Len(listeners) : listeners[n].storageId = "2"
    /\ Len(delivered) = 1
    /\ delivered[1].storageId = "2"

----------------------------------------------------------------------------
(* C10 *)

\* C10: a set or delete through the facade without an identity invokes no listener;
\* a listener registered through it is invoked by no write of any facade; registering
\* such a listener adds its registration and its unsubscribe function removes it.
C10_AnonymousIsInvisible ==
    [][/\ (last'.op \in StoreWrites /\ last'.who = NoId) => delivered' = <<>>
       /\ last'.op \in StoreWrites
          => \A n \in 1..Len(delivered') : delivered'[n].storageId # NoId
       /\ (last'.op = "Storage.onExternalChange" /\ last'.who = NoId)
          => /\ last'.threw = "none"
             /\ Len(listeners') = Len(listeners) + 1
             /\ SubSeq(listeners', 1, Len(listeners)) = listeners
             /\ listeners'[Len(listeners')].storageId = NoId
       /\ \A p \in BusListeners :
            (last'.op = "unsubscribe" /\ last'.who = NoId /\ last'.value = Probe(p))
            => /\ last'.threw = "none"
               /\ \A n \in 1..Len(listeners') :
                    ~(listeners'[n].storageId = NoId /\ listeners'[n].listener = Probe(p))
      ]_vars

\* The facade without an identity wrote while a listener was registered under "1" and
\* another through the facade without an identity: nothing was called.
C10_Witness ==
    /\ last.op = "Storage.set" /\ last.who = NoId
    /\ \E n \in 1..Len(listeners) : listeners[n].storageId = "1"
    /\ \E n \in 1..Len(listeners) : listeners[n].storageId = NoId
    /\ delivered = <<>>

\* A write through "1" was delivered to "2" while a listener registered through the
\* facade without an identity was in the registry.
C10_WitnessListener ==
    /\ last.op = "Storage.set" /\ last.who = "1"
    /\ \E n \in 1..Len(listeners) : listeners[n].storageId = NoId
    /\ Len(delivered) = 1

----------------------------------------------------------------------------
(* C11 *)

\* The registry without the registrations of listener p under identity id.
WithoutPair(entries, id, p) ==
    SelectSeq(entries, LAMBDA entry : entry # [storageId |-> id, listener |-> Probe(p)])

\* C11: the unsubscribe function of onExternalChange(p) called on facade id removes
\* the registration (id, p) and leaves every other registration in the registry,
\* the same callback registered under another identity included.
C11_RemovesExactlyThePair ==
    [][\A id \in BusFacades, p \in BusListeners :
        (last'.op = "unsubscribe" /\ last'.who = id /\ last'.value = Probe(p))
        => listeners' = WithoutPair(listeners, id, p)
      ]_vars

\* What does hold: the registrations of the callback are removed under every
\* identity, and the registrations of the other callbacks stay, in order.
C11_RemovesTheCallbackEverywhere ==
    [][\A id \in BusFacades, p \in BusListeners :
        (last'.op = "unsubscribe" /\ last'.who = id /\ last'.value = Probe(p))
        => listeners' = SelectSeq(listeners, LAMBDA entry : entry.listener # Probe(p))
      ]_vars

----------------------------------------------------------------------------
(* C12 *)

RECURSIVE RootOf(_)
\* The root an object was derived from, through the chain of createSharedInstance()
\* calls that made it.
RootOf(o) == IF storages[o].from = o THEN o ELSE RootOf(storages[o].from)

SameRoot(f, g) == storages[f].made /\ storages[g].made /\ RootOf(f) = RootOf(g)

ObjWrites == {"Object.set", "Object.delete"}

\* The registrations an object sees under a defined identity other than id.
SeenOtherIdentities(o, id) ==
    SelectSeq(RegistryOf(o), LAMBDA entry : entry.storageId \notin {NoId, id})

\* C12: objects derived from one root, directly or through chained
\* createSharedInstance() calls, read one table and one registry: a set or delete
\* through one of them is reflected at once by has, get and keys of every other one, a
\* registration made through one of them is in the registry every other one sees, and a
\* write through one of them calls the registrations made through the others under
\* any other defined identity.
C12_OneTableOneRegistry ==
    [][\A f \in Objs, g \in Objs :
        /\ SameRoot(f, g)'
           => (TableOf(f)' = TableOf(g)' /\ RegistryOf(f)' = RegistryOf(g)')
        /\ (SameRoot(f, g) /\ last'.op = "Object.set" /\ last'.who = f)
           => /\ HasKey(TableOf(g)', last'.key)
              /\ ObjRead(g, TableOf(g)', last'.key) = AsRead(last'.value)
              /\ \E n \in 1..Len(ObjKeys(g)') : ObjKeys(g)'[n] = last'.key
        /\ (SameRoot(f, g) /\ last'.op = "Object.delete" /\ last'.who = f)
           => /\ ~HasKey(TableOf(g)', last'.key)
              /\ ObjRead(g, TableOf(g)', last'.key) = Null
              /\ \A n \in 1..Len(ObjKeys(g)') : ObjKeys(g)'[n] # last'.key
        /\ (SameRoot(f, g) /\ last'.op = "Object.onExternalChange" /\ last'.who = f)
           => RegistryOf(g)' =
                 Append(RegistryOf(g), [storageId |-> storages[f].id, listener |-> last'.value])
        /\ (SameRoot(f, g) /\ last'.op \in ObjWrites /\ last'.who = f
            /\ storages[f].id # NoId)
           => /\ Len(delivered') = Len(SeenOtherIdentities(g, storages[f].id))
              /\ \A n \in 1..Len(delivered') :
                    /\ delivered'[n].storageId = SeenOtherIdentities(g, storages[f].id)[n].storageId
                    /\ delivered'[n].key = last'.key
      ]_vars

\* A write through an instance made by a chained createSharedInstance() is read
\* through the root, and calls a listener registered through the instance in between.
C12_Witness ==
    /\ last.op = "Object.set" /\ last.who = "c" /\ last.value = Date(1)
    /\ storages["c"].made /\ storages["c"].from = "b" /\ storages["b"].from = "a"
    /\ storages["b"].id = "1" /\ storages["c"].id = "2"
    /\ ObjGet("a", K1) = AsRead(Date(1))
    /\ Len(delivered) = 1 /\ delivered[1].storageId = "1"

----------------------------------------------------------------------------
(* C13 *)

\* What a failed start() or stop() must leave alone.
Lifecycle == <<isStarted, cache, data, flushTimer, timers, listeners, current>>

\* C13: start() on a started CachedStorage throws AlreadyStarted and stop() on one
\* that is not started throws NotStarted, and both leave the lifecycle state, the
\* buffer, the table, the flush timer and the registry as they were; start() on an
\* instance that is not started (after a stop() too) succeeds, and registers its
\* listener.
C13_LifecycleMisuseChangesNothing ==
    [][\A c \in Insts :
        /\ (last'.op = "start" /\ last'.who = c /\ isStarted[c])
           => (last'.threw = "AlreadyStarted" /\ UNCHANGED Lifecycle)
        /\ (last'.op = "stop" /\ last'.who = c /\ ~isStarted[c])
           => (last'.threw = "NotStarted" /\ UNCHANGED Lifecycle)
        /\ (last'.op = "start" /\ last'.who = c /\ ~isStarted[c])
           => (last'.threw = "none" /\ isStarted'[c] /\ Registered(c)')
      ]_vars

\* stop() failed on an instance that is not started but holds a buffered write: the
\* write is still buffered and was not flushed.
C13_Witness ==
    /\ last.op = "stop" /\ last.who = "c1" /\ last.threw = "NotStarted"
    /\ Buffered("c1", K1)
    /\ ~StorageHas(K1)
    /\ flushTimer["c1"] = "armed"

\* start() succeeded on an instance that had been started and stopped before, with a
\* write buffered in between.
C13_WitnessRestart ==
    /\ last.op = "start" /\ last.who = "c1" /\ last.threw = "none"
    /\ isStarted["c1"]
    /\ Buffered("c1", K1)
    /\ StorageHas(K1)

----------------------------------------------------------------------------
(* C14 *)

\* The call before this step was a flush() of c that returned, and this step is
\* flush() of c again.
FlushAfterFlush(c) ==
    /\ last.op = "flush" /\ last.who = c /\ last.threw = "none"
    /\ last'.op = "flush" /\ last'.who = c

\* C14: a flush() right after a flush() of the same instance that returned finds the
\* buffer empty, so it writes nothing: the table is unchanged, no listener is called,
\* the buffers and the timers are unchanged, and it returns.
C14_SecondFlushDoesNothing ==
    [][\A c \in Insts :
        FlushAfterFlush(c)
        => /\ cache[c] = <<>>
           /\ last'.threw = "none"
           /\ delivered' = <<>>
           /\ UNCHANGED <<data, cache, flushTimer, timers, listeners>>
      ]_vars

\* The second of two flush() calls has returned; the first one wrote K1, and another
\* started instance would have been told of a write.
C14_Witness ==
    /\ last.op = "flush" /\ last.who = "c1" /\ last.threw = "none"
    /\ last.before["c1"] = <<>>
    /\ StorageHas(K1)
    /\ isStarted["c2"] /\ Registered("c2")
    /\ delivered = <<>>

----------------------------------------------------------------------------
(* C15 *)

\* set(key, value) of c that is buffered: the tab is active and the key matches.
BufferedSet(c) ==
    /\ last'.op = "set" /\ last'.who = c
    /\ last'.value # Undefined
    /\ ShouldCache(c, last'.key) = "yes"

\* The step ran flush() of c: by a call of c that flushes, or by c's listener merging
\* an external write into the buffer.
Flushed(c) ==
    \/ last'.op \in FlushCalls /\ last'.who = c /\ last'.threw # "NotStarted"
    \/ \E k \in TwoKeys : ExternalWrite(c, k) /\ isStarted[c] /\ hasMerge[c] /\ Buffered(c, k)

\* At most one scheduled flush per instance; a buffered set() while one is scheduled
\* leaves it as it is; only a buffered set() of the instance schedules one.
OneTimer(c) ==
    /\ timers[c] <= 1 /\ timers'[c] <= 1
    /\ (BufferedSet(c) /\ flushTimer[c] = "armed")
       => (timers'[c] = timers[c] /\ flushTimer'[c] = flushTimer[c])
    /\ (timers[c] = 0 /\ timers'[c] > 0)
       => (BufferedSet(c) /\ HasKey(cache'[c], last'.key))

\* C15: in every state an instance has at most one scheduled flush, a buffered set()
\* while one is scheduled neither adds one nor replaces it, none is scheduled but by
\* a buffered set(), and after any flush() of the instance (explicit, by the timer,
\* on inactivity, by stop() or by reconciliation) none is scheduled.
C15_NoTimerAfterFlush ==
    [][\A c \in Insts :
        /\ OneTimer(c)
        /\ Flushed(c) => (timers'[c] = 0 /\ flushTimer'[c] # "armed")
      ]_vars

\* What holds: the same, for every flush() that returns. (One that throws leaves the
\* scheduled flush in place.)
C15_NoTimerAfterReturnedFlush ==
    [][\A c \in Insts :
        /\ OneTimer(c)
        /\ (Flushed(c) /\ last'.threw = "none")
           => (timers'[c] = 0 /\ flushTimer'[c] = "none")
      ]_vars

\* A second buffered set() was made while the flush of the first was scheduled.
C15_WitnessSecondSet ==
    /\ last.op = "set" /\ last.who = "c1" /\ last.threw = "none"
    /\ HasKey(last.before["c1"], K1)
    /\ Buffered("c1", K1)
    /\ Lookup(cache["c1"], K1) # Lookup(last.before["c1"], K1)
    /\ timers["c1"] = 1

\* flush() threw and its instance's flush is still scheduled.
C15_TimerLeftByThrowingFlush ==
    /\ last.op = "flush" /\ last.threw = "RangeError"
    /\ timers[last.who] = 1 /\ flushTimer[last.who] = "armed"

----------------------------------------------------------------------------
(* C16 *)

\* The strings matchesPattern() is called with: up to MaxLen characters, the
\* asterisk among them.
MaxLen == 3
Chars == {"a", "b", "*"}
Strings == UNION {[1..n -> Chars] : n \in 0..MaxLen}

\* A string and a pattern are chosen; nothing else exists.
InitPattern ==
    /\ InitCached
    /\ data = <<>>
    /\ listeners = <<>>
    /\ delivered = <<>>
    /\ storages = [o \in Objs |-> NoStorage]
    /\ dataSource = [o \in Objs |-> <<>>]
    /\ externalChangeListeners = [o \in Objs |-> <<>>]
    /\ stringifyStoredValues = TRUE
    /\ hasMerge = [c \in Insts |-> FALSE]
    /\ \E string \in Strings, pattern \in Strings :
          last = [op |-> "arguments", who |-> "", key |-> pattern, value |-> string,
                  before |-> [c \in Insts |-> <<>>], threw |-> "none",
                  returned |-> Undefined]

\* matchesPattern(string, pattern) is called with the chosen arguments.
MatchesPatternCall ==
    /\ last.op = "arguments"
    /\ last' = [last EXCEPT
                  !.op = "matchesPattern",
                  !.threw = IF PatternThrows(last.key) THEN "InvalidPattern" ELSE "none",
                  !.returned = IF PatternThrows(last.key)
                               THEN Undefined
                               ELSE MatchesPattern(last.value, last.key)]
    /\ UNCHANGED <<data, listeners, stringifyStoredValues, cache, flushTimer, timers,
                   isStarted, current, active, cachedKeys, hasMerge, delivered>>
    /\ UNCHANGED objects

NextPattern == MatchesPatternCall

SpecPattern == InitPattern /\ [][NextPattern]_vars

Asterisks(pattern) == {i \in 1..Len(pattern) : pattern[i] = "*"}
StartsWith(string, prefix) ==
    Len(prefix) <= Len(string) /\ SubSeq(string, 1, Len(prefix)) = prefix

\* C16: matchesPattern(value, pattern) returns value = pattern when the pattern has no
\* asterisk, returns whether value starts with the text before the asterisk when the
\* pattern has one asterisk and it is its last character, and throws for every other
\* pattern (an asterisk elsewhere, or more than one).
C16_ExactPrefixOrError ==
    last.op = "matchesPattern"
    => LET string == last.value
           pattern == last.key
       IN  IF Asterisks(pattern) = {}
           THEN last.threw = "none" /\ last.returned = (string = pattern)
           ELSE IF Asterisks(pattern) = {Len(pattern)}
           THEN /\ last.threw = "none"
                /\ last.returned = StartsWith(string, SubSeq(pattern, 1, Len(pattern) - 1))
           ELSE last.threw = "InvalidPattern"

\* A pattern with two asterisks, the second one last, was refused.
C16_Witness ==
    /\ last.op = "matchesPattern"
    /\ last.key = <<"a", "*", "*">>
    /\ last.value = <<"a", "b">>
    /\ last.threw = "InvalidPattern"

\* A string that holds the prefix, but not at its start, did not match.
C16_WitnessPrefix ==
    /\ last.op = "matchesPattern"
    /\ last.key = <<"a", "*">>
    /\ last.value = <<"b", "a">>
    /\ last.threw = "none"
    /\ last.returned = FALSE

----------------------------------------------------------------------------
(* C17 *)

CsKeys(c) == CsKeysW(World, c)
Listed(c, key) == \E i \in 1..Len(CsKeys(c)) : CsKeys(c)[i] = key

\* keys() of c is the backend's keys(); a buffered key is listed exactly when the
\* backend has it, while has() is true for it either way.
KeysAreBackendKeys(c) ==
    /\ CsKeys(c) = MsKeys(data)
    /\ \A k \in TwoKeys :
          Buffered(c, k) => (CsHas(c, k) /\ (Listed(c, k) <=> StorageHas(k)))

\* C17: keys() of a CachedStorage always equals the backend's keys(): a buffered key
\* that the backend has is listed, one that the backend does not have is not listed
\* although has() is true for it, and it is listed once a flush() has written it.
C17_KeysAreBackendKeys ==
    [][\A c \in Insts :
        /\ KeysAreBackendKeys(c)'
        /\ \A k \in TwoKeys :
              (/\ last'.op \in FlushCalls /\ last'.who = c /\ last'.threw = "none"
               /\ Buffered(c, k))
              => Listed(c, k)'
      ]_vars

\* c1 holds both keys buffered; the backend has K2 only, and so has keys().
C17_Witness ==
    /\ Buffered("c1", K1) /\ Buffered("c1", K2)
    /\ ~StorageHas(K1) /\ StorageHas(K2)
    /\ CsHas("c1", K1)
    /\ CsKeys("c1") = <<K2>>

\* A flush() has written a key that only the buffer had, and keys() lists it.
C17_WitnessFlushed ==
    /\ last.op = "flush" /\ last.who = "c1" /\ last.threw = "none"
    /\ HasKey(last.before["c1"], K1)
    /\ CsKeys("c1") = <<K1>>

----------------------------------------------------------------------------
(* C18 *)

\* storage.getRecordSize(key), called on a MemoryStorage facade directly.
MsSize(id, key) ==
    /\ Running
    /\ last' = [op |-> "Storage.getRecordSize", who |-> id, key |-> key,
                value |-> Undefined, before |-> cache, threw |-> "none",
                returned |-> MsGetRecordSize(data, key)]
    /\ delivered' = <<>>
    /\ UNCHANGED <<data, listeners, stringifyStoredValues, cache, flushTimer, timers,
                   isStarted, current, active, cachedKeys, hasMerge>>
    /\ UNCHANGED objects

\* Keys of one, two and three characters; strings (one with a quote in it), a Date,
\* null and undefined as values.
SizeKeys == {<<"a">>, <<"a", "b">>, <<"k", "e", "y">>}
SizeValues ==
    {Text(<<>>), Text(<<"a", "b">>), Text(<<"a", "\"">>), Date(0), Null, Undefined}

InitSize ==
    /\ InitStore
    /\ InitCached
    /\ stringifyStoredValues \in BOOLEAN
    /\ hasMerge = [c \in Insts |-> FALSE]

NextSize ==
    \/ \E key \in SizeKeys, value \in SizeValues : MsSet("1", key, value)
    \/ \E key \in SizeKeys : MsDelete("1", key)
    \/ \E key \in SizeKeys : MsSize("1", key)

SpecSize == InitSize /\ [][NextSize]_vars

SizeReturned == last.op = "Storage.getRecordSize"

\* C18, as stated: getRecordSize(key) is 0 for an absent key and otherwise twice the
\* key's length plus the serialized value's length, for a stored null as well.
C18_TwiceKeyPlusSerialized ==
    SizeReturned
    => last.returned =
          IF ~StorageHas(last.key)
          THEN 0
          ELSE IF Lookup(data, last.key) = Undefined
          THEN 2 * Len(last.key)
          ELSE 2 * (Len(last.key) + JsonStringifyLength(Lookup(data, last.key)))

\* C18, amended: getRecordSize(key) is 0 for an absent key and otherwise twice the
\* key's length plus the serialized value's length, where a stored null (or undefined)
\* counts for nothing: its size is twice the key's length.
C18_NullCountsForNothing ==
    SizeReturned
    => last.returned =
          IF ~StorageHas(last.key)
          THEN 0
          ELSE IF Lookup(data, last.key) \in {Null, Undefined}
          THEN 2 * Len(last.key)
          ELSE 2 * (Len(last.key) + JsonStringifyLength(Lookup(data, last.key)))

\* The size of a stored null was asked for: it is that of the key alone.
C18_Witness ==
    /\ SizeReturned
    /\ last.key = <<"a", "b">>
    /\ StorageHas(last.key)
    /\ Lookup(data, last.key) = Null
    /\ last.returned = 4

\* The size of a stored string with a quote in it: 2 * (3 + 5).
C18_WitnessEscaped ==
    /\ SizeReturned
    /\ last.key = <<"k", "e", "y">>
    /\ Lookup(data, last.key) = Text(<<"a", "\"">>)
    /\ last.returned = 16

----------------------------------------------------------------------------
(* C19 *)

\* Two keys, with deletes: through the facade "3", by delete(key) and by
\* set(key, undefined) of a CachedStorage.
DeleteSetValues == {Str(0), Undefined}

NextDelete ==
    \/ \E c \in Insts, key \in TwoKeys, value \in DeleteSetValues : CsSet(c, key, value)
    \/ \E c \in Insts, key \in TwoKeys : CsDelete(c, key)
    \/ \E c \in Insts : CsFlush(c)
    \/ \E c \in Insts : TimerFire(c)
    \/ \E c \in Insts : CsStart(c)
    \/ \E c \in Insts : CsStop(c)
    \/ \E c \in Insts : CacheKey(c, PrefixA)
    \/ \E key \in TwoKeys : MsSet("3", key, Str(1))
    \/ \E key \in TwoKeys : MsDelete("3", key)

SpecDelete == InitKeys /\ [][NextDelete]_vars

\* `call` deleted `key` through a facade of another identity than c's: a direct
\* storage.delete(), or delete(key) or set(key, undefined) of another CachedStorage.
DeletedByOther(call, c, key) ==
    /\ call.key = key
    /\ \/ call.op = "Storage.delete" /\ call.who \notin {NoId, StorageOf(c)}
       \/ call.op = "delete" /\ call.who \in Insts \ {c}
       \/ call.op = "set" /\ call.who \in Insts \ {c} /\ call.value = Undefined

\* The external delete of k: c's buffered entry for k is gone, its other entries are
\* as they were, and the table has lost k and is otherwise as it was (nobody wrote).
DiscardsOnDelete(c, k) ==
    (DeletedByOther(last', c, k) /\ isStarted[c] /\ Buffered(c, k))
    => /\ last'.threw = "none"
       /\ cache'[c] = Remove(cache[c], k)
       /\ data' = Remove(data, k)

\* C19: when a started CachedStorage holds k buffered and another identity deletes k,
\* the buffered entry is discarded and nothing is written, with or without a merge
\* function; the other buffered keys stay buffered, and after the flush() of the
\* instance that follows the table still has no k.
C19_DeletedStaysDeleted ==
    [][\A c \in Insts, k \in TwoKeys :
        /\ DiscardsOnDelete(c, k)
        /\ (/\ DeletedByOther(last, c, k) /\ isStarted[c] /\ HasKey(last.before[c], k)
            /\ last'.op \in FlushCalls /\ last'.who = c)
           => ~MsHas(data', k)
      ]_vars

\* What holds: the same, when the deleter is not a CachedStorage that deleted k by
\* set(k, undefined) (which leaves k in its own buffer, to be written by its next
\* flush()).
C19_DeletedStaysDeletedUnlessBySet ==
    [][\A c \in Insts, k \in TwoKeys :
        /\ DiscardsOnDelete(c, k)
        /\ (/\ DeletedByOther(last, c, k) /\ last.op # "set"
            /\ isStarted[c] /\ HasKey(last.before[c], k)
            /\ last'.op \in FlushCalls /\ last'.who = c)
           => ~MsHas(data', k)
      ]_vars

\* The facade "3" deleted K1, which the table had and the started, merging c1 held
\* buffered with K2: c1 still holds K2, and K1 is gone from both.
C19_DiscardedByDelete ==
    /\ last.op = "Storage.delete" /\ last.who = "3" /\ last.key = K1
    /\ isStarted["c1"] /\ hasMerge["c1"]
    /\ HasKey(last.before["c1"], K1) /\ HasKey(last.before["c1"], K2)
    /\ ~Buffered("c1", K1) /\ Buffered("c1", K2)
    /\ ~StorageHas(K1)

\* set(K1, undefined) of c1 deleted K1 and c2 discarded its entry, but c1 still holds
\* K1 buffered.
C19_DeleterStillHoldsKey ==
    /\ last.op = "set" /\ last.who = "c1" /\ last.key = K1 /\ last.value = Undefined
    /\ isStarted["c2"]
    /\ HasKey(last.before["c2"], K1) /\ ~Buffered("c2", K1)
    /\ Buffered("c1", K1)

----------------------------------------------------------------------------
(* C20 *)

\* C20: reconciliation never recurses without bound: every call (set, delete, flush,
\* and the listeners it triggers) returns to its caller, also with two instances that
\* both have a merge function and both hold the same key buffered.
C20_EveryCallReturns == last.threw # "RangeError"

\* What holds: a call exhausts the stack only when every instance has a merge
\* function, is registered, and held one and the same key buffered when the call
\* was made.
C20_OnlyTwoMergersRecurse ==
    last.threw = "RangeError"
    => /\ \A c \in Insts : hasMerge[c] /\ Registered(c)
       /\ \E k \in Keys : \A c \in Insts : HasKey(last.before[c], k)

\* flush() of c1 did not return: c2 merged c1's write and wrote it back, c1 merged
\* that write and wrote it back, and so on.
C20_FlushDidNotReturn ==
    /\ last.op = "flush" /\ last.who = "c1" /\ last.threw = "RangeError"
    /\ hasMerge["c1"] /\ hasMerge["c2"]
    /\ HasKey(last.before["c1"], K1) /\ HasKey(last.before["c2"], K1)

----------------------------------------------------------------------------
(* C21 *)

\* The table after the write `call` made to the table d.
Committed(d, call) ==
    IF call.op = "Storage.delete" THEN Remove(d, call.key) ELSE Put(d, call.key, call.value)

\* The write is committed, and the registrations of the other identities are called
\* in registry order, each finding the table already written, with the key and the
\* written value (null for a delete).
CommitsThenNotifies(i) ==
    /\ data' = Committed(data, last')
    /\ Len(delivered') = Len(OtherIdentities(i))
    /\ \A n \in 1..Len(delivered') :
          /\ delivered'[n].storageId = OtherIdentities(i)[n].storageId
          /\ delivered'[n].listener = OtherIdentities(i)[n].listener
          /\ delivered'[n].table = data'
          /\ delivered'[n].key = last'.key
          /\ delivered'[n].value = (IF last'.op = "Storage.delete" THEN Null ELSE last'.value)

\* C21, as stated: set and delete commit the change to the table and then call the
\* other identities' listeners in registration order, before returning, each with
\* the key, the written value (null for a delete) and the value the key held just
\* before (null when it held none).
C21_NotifiedWithHeldValue ==
    [][\A i \in BusFacades \ {NoId} :
        (last'.op \in StoreWrites /\ last'.who = i)
        => /\ CommitsThenNotifies(i)
           /\ \A n \in 1..Len(delivered') :
                delivered'[n].prevValue = MsGetRaw(data, last'.key)
      ]_vars

\* C21, amended: the same, where the previous value a listener receives is what
\* get(key) returned just before the write: the held value after its JSON round trip
\* (a held Date as its ISO string) unless stringifyStoredValues is false, and null
\* when the key was absent.
C21_NotifiedWithReadValue ==
    [][\A i \in BusFacades \ {NoId} :
        (last'.op \in StoreWrites /\ last'.who = i)
        => /\ CommitsThenNotifies(i)
           /\ \A n \in 1..Len(delivered') :
                delivered'[n].prevValue =
                    (IF HasKey(data, last'.key) THEN AsRead(Lookup(data, last'.key)) ELSE Null)
      ]_vars

\* A write through "1" over a held Date called two registrations of "2" in registry
\* order; both found the table written and were given the Date as a string.
C21_Witness ==
    /\ last.op = "Storage.set" /\ last.who = "1" /\ last.value = Str(0)
    /\ stringifyStoredValues
    /\ Len(delivered) = 2
    /\ delivered[1].listener = Probe("g") /\ delivered[2].listener = Probe("f")
    /\ \A n \in 1..2 :
          /\ delivered[n].prevValue = Str(1)
          /\ Lookup(delivered[n].table, K1) = Str(0)

----------------------------------------------------------------------------
(* C22 *)

\* One CachedStorage, c1, is the only writer: two keys, every kind of call, and a
\* listener of another identity that is told of every write to the table.
OrderSetValues == {Str(0), Str(1), Date(1), Undefined}
OrderPatterns == {PrefixA, ExactAB, Malformed}

NextOrder ==
    \/ \E c \in {"c1"}, key \in TwoKeys, value \in OrderSetValues : CsSet(c, key, value)
    \/ \E c \in {"c1"}, key \in TwoKeys : CsDelete(c, key)
    \/ \E c \in {"c1"} : CsFlush(c)
    \/ \E c \in {"c1"} : TimerFire(c)
    \/ \E c \in {"c1"} : TabActive(c)
    \/ \E c \in {"c1"} : TabInactive(c)
    \/ \E c \in {"c1"} : CsStart(c)
    \/ \E c \in {"c1"} : CsStop(c)
    \/ \E c \in {"c1"}, pattern \in OrderPatterns : CacheKey(c, pattern)
    \/ \E id \in {"3"}, p \in {"f"} : MsOnExternalChange(id, p)

SpecOrder == InitBus /\ [][NextOrder]_vars

\* No value: the key is neither buffered nor in the table.
Absent == <<"absent", 0>>

\* What the writes made through c so far amount to for `key`: the buffered value,
\* else the value the table holds.
Effective(c, key) ==
    IF Buffered(c, key) THEN Lookup(cache[c], key)
    ELSE IF HasKey(data, key) THEN Lookup(data, key)
    ELSE Absent

\* The notifications of writes to `key` that the probes received during this step.
WritesOf(key) == {n \in 1..Len(delivered') : delivered'[n].key = key}
Probes == {n \in 1..Len(listeners) : listeners[n].listener[1] = "probe"}

\* A flush() of c writes every buffered key once, with its buffered value, writes no
\* other key, and leaves nothing buffered.
WritesEachOnce(c, k) ==
    (last'.op \in FlushCalls /\ last'.who = c /\ last'.threw = "none")
    => /\ cache'[c] = <<>>
       /\ Cardinality(WritesOf(k)) = (IF Buffered(c, k) THEN Cardinality(Probes) ELSE 0)
       /\ \A n \in WritesOf(k) : delivered'[n].value = Lookup(cache[c], k)

\* A call of c that is not a set or delete of k leaves what k amounts to as it was.
OthersKeep(c, k) ==
    ~(last'.op \in {"set", "delete"} /\ last'.key = k /\ last'.threw = "none")
    => Effective(c, k)' = Effective(c, k)

\* C22: the writes of one CachedStorage to a key take effect in call order: a set(k, v)
\* makes v the value of k, a delete(k) or set(k, undefined) makes k absent, no other
\* call changes it, and a flush() writes each buffered key once, with its latest
\* value, so that after it the table holds for k what the last call made of it.
C22_LastCallWins ==
    [][\A k \in TwoKeys :
        /\ (last'.op = "set" /\ last'.key = k /\ last'.threw = "none")
           => Effective("c1", k)' =
                 (IF last'.value = Undefined THEN Absent ELSE last'.value)
        /\ (last'.op = "delete" /\ last'.key = k) => Effective("c1", k)' = Absent
        /\ OthersKeep("c1", k)
        /\ WritesEachOnce("c1", k)
      ]_vars

\* What holds: the same, but for set(k, undefined) while k is buffered, which deletes
\* k from the table and leaves the buffered value in place.
C22_LastCallWinsUnlessUnset ==
    [][\A k \in TwoKeys :
        /\ (/\ last'.op = "set" /\ last'.key = k /\ last'.threw = "none"
            /\ ~(last'.value = Undefined /\ Buffered("c1", k)))
           => Effective("c1", k)' =
                 (IF last'.value = Undefined THEN Absent ELSE last'.value)
        /\ (last'.op = "delete" /\ last'.key = k) => Effective("c1", k)' = Absent
        /\ OthersKeep("c1", k)
        /\ WritesEachOnce("c1", k)
      ]_vars

\* A flush() has written K1, set twice while buffered, once: with the second value.
C22_SetTwiceWrittenOnce ==
    /\ last.op = "flush" /\ last.who = "c1" /\ last.threw = "none"
    /\ Lookup(last.before["c1"], K1) = Str(1)
    /\ Len(listeners) > 0
    /\ Len(delivered) = 1 /\ delivered[1].value = Str(1)
    /\ Lookup(data, K1) = Str(1)

\* set(K1, undefined) returned and K1 is still buffered.
C22_UnsetKeepsBufferedValue ==
    /\ last.op = "set" /\ last.who = "c1" /\ last.key = K1 /\ last.value = Undefined
    /\ Buffered("c1", K1)
    /\ ~StorageHas(K1)

----------------------------------------------------------------------------
(* C23 *)

\* The caller of a call that threw RangeError catches it and goes on: the state is
\* what the unwinding left.
Caught ==
    /\ ~Running
    /\ last' = [last EXCEPT !.op = "catch", !.threw = "caught"]
    /\ delivered' = <<>>
    /\ UNCHANGED <<data, listeners, stringifyStoredValues, cache, flushTimer, timers,
                   isStarted, current, active, cachedKeys, hasMerge>>
    /\ UNCHANGED objects

\* Two CachedStorage instances, with or without a merge function, their tabs in the foreground,
\* both caching "a*"; one key; a third facade writes it.
InitCaught ==
    /\ InitStore
    /\ cache = [c \in Insts |-> <<>>]
    /\ flushTimer = [c \in Insts |-> "none"]
    /\ timers = [c \in Insts |-> 0]
    /\ isStarted = [c \in Insts |-> FALSE]
    /\ current = [c \in Insts |-> 0]
    /\ active = [c \in Insts |-> TRUE]
    /\ cachedKeys = [c \in Insts |-> <<PrefixA>>]
    /\ stringifyStoredValues = TRUE
    /\ hasMerge \in {[c \in Insts |-> FALSE], [c \in Insts |-> c = "c1"], [c \in Insts |-> TRUE]}

NextCaught ==
    \/ \E c \in Insts, key \in Keys : CsSet(c, key, Str(0))
    \/ \E c \in Insts : CsFlush(c)
    \/ \E c \in Insts : TimerFire(c)
    \/ \E c \in Insts : CsStart(c)
    \/ \E c \in Insts : CsStop(c)
    \/ \E key \in Keys : MsSet("3", key, Str(1))
    \/ Caught

SpecCaught == InitCaught /\ [][NextCaught]_vars

\* The step is a call made by somebody else than c.
ByAnother(c) == last'.who # c /\ last'.op # "catch"

\* The step leaves c's buffer and timer as they were.
Untouched(c) ==
    /\ cache'[c] = cache[c]
    /\ flushTimer'[c] = flushTimer[c]
    /\ timers'[c] = timers[c]

\* C23: reconciliation happens only while the CachedStorage is started: a write by
\* another identity before start() or after stop() leaves its buffer (and timer)
\* unchanged.
C23_StoppedIsUntouched ==
    [][\A c \in Insts : (ByAnother(c) /\ ~isStarted[c]) => Untouched(c)]_vars

\* What holds: a write by another identity leaves the buffer unchanged while the
\* instance has no listener registered. (A stop() whose flush() threw has cleared
\* _isStarted and left the listener registered.)
C23_NotListeningIsUntouched ==
    [][\A c \in Insts : (ByAnother(c) /\ ~Registered(c)) => Untouched(c)]_vars

\* The facade "3" wrote K1 while c1, not started, held it buffered: it still does.
C23_BufferedWhileNotStarted ==
    /\ last.op = "Storage.set" /\ last.who = "3" /\ last.key = K1
    /\ ~isStarted["c1"] /\ ~Registered("c1")
    /\ Buffered("c1", K1)
    /\ Lookup(cache["c1"], K1) = Lookup(last.before["c1"], K1)

\* stop() of c1 threw: c1 is not started and its listener is registered.
C23_StoppedAndListening ==
    /\ last.op = "catch"
    /\ ~isStarted["c1"] /\ Registered("c1")

----------------------------------------------------------------------------
(* C24 *)

\* One CachedStorage made with a `cachedKeys` option, some of them with a malformed
\* pattern, before or after one that matches; cacheKey() adds to an empty list.
CachedKeysOptions ==
    {<<>>, <<Malformed>>, <<PrefixB, Malformed>>, <<ExactAB, Malformed>>,
     <<Malformed, PrefixA>>, <<PrefixA, PrefixB>>}

InitCacheKey ==
    /\ InitStore
    /\ cache = [c \in Insts |-> <<>>]
    /\ flushTimer = [c \in Insts |-> "none"]
    /\ timers = [c \in Insts |-> 0]
    /\ isStarted = [c \in Insts |-> FALSE]
    /\ current = [c \in Insts |-> 0]
    /\ active = [c \in Insts |-> FALSE]
    /\ \E option \in CachedKeysOptions :
          cachedKeys = [c \in Insts |-> IF c = "c1" THEN option ELSE <<>>]
    /\ stringifyStoredValues = TRUE
    /\ hasMerge = [c \in Insts |-> FALSE]

NextCacheKey ==
    \/ \E c \in {"c1"}, pattern \in OrderPatterns : CacheKey(c, pattern)
    \/ \E c \in {"c1"}, key \in TwoKeys, value \in OrderSetValues : CsSet(c, key, value)
    \/ \E c \in {"c1"}, key \in TwoKeys : CsDelete(c, key)
    \/ \E c \in {"c1"} : CsFlush(c)
    \/ \E c \in {"c1"} : TimerFire(c)
    \/ \E c \in {"c1"} : TabActive(c)
    \/ \E c \in {"c1"} : TabInactive(c)

SpecCacheKey == InitCacheKey /\ [][NextCacheKey]_vars

\* The first pattern of c's list that is malformed or matches `key` is a malformed one.
MalformedFirst(c, key) ==
    \E i \in 1..Len(cachedKeys[c]) :
        /\ PatternThrows(cachedKeys[c][i])
        /\ \A j \in 1..(i - 1) :
              ~PatternThrows(cachedKeys[c][j]) /\ ~MatchesPattern(key, cachedKeys[c][j])

\* C24: cacheKey(pattern) never fails, also for a malformed pattern, and changes
\* neither the buffer, the table nor the timer; the malformed pattern makes a later
\* set() throw InvalidPattern (exactly a set() of a value, with the tab active, for
\* a key that no earlier pattern matches), and a set() that throws this way leaves
\* the buffer, the table and the timer unchanged.
C24_MalformedSurfacesInSet ==
    [][\A c \in Insts :
        /\ (last'.op = "cacheKey" /\ last'.who = c)
           => /\ last'.threw = "none"
              /\ cachedKeys'[c] = Append(cachedKeys[c], last'.key)
              /\ UNCHANGED <<cache, data, flushTimer, timers>>
        /\ (/\ last'.op = "set" /\ last'.who = c /\ last'.value # Undefined
            /\ active[c] /\ MalformedFirst(c, last'.key))
           => last'.threw = "InvalidPattern"
        /\ (last'.op = "set" /\ last'.who = c /\ last'.threw = "InvalidPattern")
           => /\ last'.value # Undefined /\ active[c] /\ MalformedFirst(c, last'.key)
              /\ UNCHANGED <<cache, data, flushTimer, timers>>
      ]_vars

\* set(K2, v) threw for the malformed pattern after "ab", while K1 was buffered and
\* its flush scheduled: both still are.
C24_Witness ==
    /\ last.op = "set" /\ last.who = "c1" /\ last.key = K2 /\ last.threw = "InvalidPattern"
    /\ cachedKeys["c1"] = <<ExactAB, Malformed>>
    /\ Buffered("c1", K1) /\ timers["c1"] = 1
    /\ data = <<>>

\* cacheKey() took a malformed pattern.
C24_WitnessCacheKey ==
    /\ last.op = "cacheKey" /\ last.threw = "none"
    /\ cachedKeys["c1"] = <<Malformed>>

----------------------------------------------------------------------------
(* C25 *)

\* c reads every key from the backing storage.
ReadsFromStorage(c) ==
    \A key \in Keys : CsGet(c, key) = StorageGet(key) /\ CsHas(c, key) = StorageHas(key)

\* C25, as stated: a CachedStorage whose tab is in the background holds no buffered
\* write, so get() and has() read from the backing storage.
C25_BackgroundHoldsNothing ==
    \A c \in Insts : ~active[c] => (cache[c] = <<>> /\ ReadsFromStorage(c))

\* C25, what the code keeps: a CachedStorage whose tab is in the background holds a
\* buffered write only after a flush() that threw.
C25_BackgroundHoldsNothingUnlessThrown ==
    \A c \in Insts : (Running /\ ~active[c]) => (cache[c] = <<>> /\ ReadsFromStorage(c))

\* The tab went to the background with a write buffered, and the flush returned.
C25_FlushedOnInactive ==
    /\ last.op = "inactive" /\ last.threw = "none"
    /\ last.before[last.who] # <<>>
    /\ cache[last.who] = <<>>
    /\ StorageHas(K1)

\* The tab went to the background and its flush threw: the write is still buffered.
C25_BufferedInBackground ==
    /\ last.op = "inactive" /\ last.threw = "RangeError"
    /\ ~active[last.who]
    /\ cache[last.who] # <<>>

----------------------------------------------------------------------------
(* C26 *)

\* The table holds `key` with the value undefined.
StoredUndefined(d, key) == HasKey(d, key) /\ Lookup(d, key) = Undefined

\* C26, as stated: a flush() writes for each key the value buffered for it, never
\* undefined: no call that runs flush() puts undefined under a key of the table,
\* also when the listeners its writes call discard what the instance had buffered.
C26_FlushWritesNoUndefined ==
    [][last'.op \in FlushCalls
       => \A key \in TwoKeys : StoredUndefined(data', key) => StoredUndefined(data, key)
      ]_vars

\* c1.flush() with 'ab' and 'ac' buffered: its write of 'ab' made c2 merge and flush
\* both of its keys, c1 discarded 'ac' for c2's write, and then wrote cache['ac'].
C26_WroteUndefined ==
    /\ last.op \in FlushCalls /\ last.threw = "none"
    /\ HasKey(last.before[last.who], K1) /\ HasKey(last.before[last.who], K2)
    /\ StoredUndefined(data, K2)

----------------------------------------------------------------------------
(* C27 *)

\* One CachedStorage, with or without a merge function, a caller's listener under
\* identity "2" and writes through facade "3".
ReactValues == {Str(0), Str(1)}

NextReact ==
    \/ \E c \in {"c1"}, key \in Keys : CsSet(c, key, Str(0))
    \/ \E c \in {"c1"} : CsFlush(c)
    \/ \E c \in {"c1"} : CsStart(c)
    \/ \E c \in {"c1"} : CsStop(c)
    \/ \E c \in {"c1"} : CacheKey(c, PrefixA)
    \/ \E id \in {"2"}, p \in {"f"} : MsOnExternalChange(id, p)
    \/ \E id \in {"2"}, p \in {"f"} : MsUnsubscribe(id, p)
    \/ \E id \in {"3"}, key \in Keys, value \in ReactValues : MsSet(id, key, value)
    \/ \E id \in {"3"}, key \in Keys : MsDelete(id, key)

SpecReact == InitKeys /\ [][NextReact]_vars

\* The n-th notification of the step is the last one its listener received for its key.
LastTold(n) ==
    \A m \in (n + 1)..Len(delivered') :
        \/ delivered'[m].storageId # delivered'[n].storageId
        \/ delivered'[m].listener # delivered'[n].listener
        \/ delivered'[m].key # delivered'[n].key

\* C27, as stated: when a call that wrote to the store returns, the last notification
\* each listener received for a key carries the value the table holds for it, also
\* when another listener reacted to the write by writing to the store.
C27_LastNotificationIsTableValue ==
    [][last'.threw = "none"
       => \A n \in 1..Len(delivered') :
             LastTold(n) => delivered'[n].value = MsGet(data', delivered'[n].key)
      ]_vars

\* C27, what the code keeps: the same, for a write that no listener answers by
\* merging and writing back.
C27_LastNotificationUnlessMerged ==
    [][(last'.threw = "none" /\ last'.op \in StoreWrites /\ ~OtherMerges(last'.who, last'.key))
       => \A n \in 1..Len(delivered') :
             LastTold(n) => delivered'[n].value = MsGet(data', delivered'[n].key)
      ]_vars

\* A write through "3" was merged and written back by c1, registered ahead of the
\* listener under "2": that listener was told the merged value first and the written
\* value last, and the table holds the merged value.
C27_StaleNotificationLast ==
    /\ last.op = "Storage.set" /\ last.who = "3" /\ last.threw = "none"
    /\ Len(delivered) = 2
    /\ delivered[1].value = MsGet(data, K1)
    /\ delivered[2].value = last.value
    /\ delivered[2].value # MsGet(data, K1)

\* A write through "3" that c1 did not answer, with the listener under "2" told.
C27_WitnessInOrder ==
    /\ last.op = "Storage.set" /\ last.who = "3" /\ last.threw = "none"
    /\ isStarted["c1"]
    /\ Len(delivered) = 1
    /\ delivered[1].value = MsGet(data, K1)

----------------------------------------------------------------------------
(* C28 *)

\* C28, as stated: between calls, a CachedStorage with a non-empty buffer has a flush
\* timer pending.
C28_BufferedImpliesTimer ==
    \A c \in Insts : cache[c] # <<>> => (timers[c] = 1 /\ flushTimer[c] = "armed")

\* The timer-fired flush() threw and the error was caught; a later set() buffered a
\* value and found the spent handle in this.flushTimer, so it scheduled nothing.
C28_SetAfterSpentTimer ==
    /\ last.op = "set" /\ last.threw = "none"
    /\ Buffered(last.who, last.key)
    /\ flushTimer[last.who] = "fired"
    /\ timers[last.who] = 0

----------------------------------------------------------------------------
(* C29 *)

\* C29, as stated: set(k, undefined) does what delete(k) does, also when k is
\* buffered: after it has(k) is false, get(k) returns null, and k is not buffered, so
\* that no later flush writes the value k had in the buffer.
C29_UnsetIsDelete ==
    [][\A c \in Insts, k \in TwoKeys :
        (/\ last'.op = "set" /\ last'.who = c /\ last'.key = k
         /\ last'.value = Undefined /\ last'.threw = "none")
        => /\ ~CsHas(c, k)'
           /\ CsGet(c, k)' = Null
           /\ ~HasKey(cache'[c], k)
      ]_vars

\* set(K2, undefined) returned with K2 buffered before it: has(K2) is still true and
\* get(K2) still returns the buffered value.
C29_UnsetKeyStillRead ==
    /\ last.op = "set" /\ last.who = "c1" /\ last.key = K2 /\ last.value = Undefined
    /\ HasKey(last.before["c1"], K2)
    /\ CsHas("c1", K2)
    /\ CsGet("c1", K2) = Lookup(last.before["c1"], K2)

\* delete(K2) returned with K2 buffered before it: the entry is gone.
C29_DeleteDropsEntry ==
    /\ last.op = "delete" /\ last.who = "c1" /\ last.key = K2
    /\ HasKey(last.before["c1"], K2)
    /\ ~CsHas("c1", K2)
    /\ CsGet("c1", K2) = Null

----------------------------------------------------------------------------
(* C30 *)

\* The registrations of c's reconciliation listeners in the registry.
ListenersOf(c) ==
    {i \in 1..Len(listeners) :
        listeners[i].listener[1] = "cs" /\ listeners[i].listener[2] = c}

\* C30, as stated: after any start() and stop() calls, failed ones included, a
\* CachedStorage has one reconciliation listener registered while it is started and
\* none while it is stopped.
C30_OneListenerIffStarted ==
    \A c \in Insts : Cardinality(ListenersOf(c)) = (IF isStarted[c] THEN 1 ELSE 0)

\* stop() threw out of its flush(), the error was caught, and start() was called
\* again: the instance is started with two listeners registered.
C30_DuplicatedByRestart ==
    /\ last.op = "start" /\ last.threw = "none"
    /\ isStarted[last.who]
    /\ Cardinality(ListenersOf(last.who)) = 2

\* stop() returned: the listener start() had registered is gone.
C30_UnregisteredByStop ==
    /\ last.op = "stop" /\ last.threw = "none"
    /\ ListenersOf(last.who) = {}
    /\ \E o \in Insts : ListenersOf(o) # {}

====
